---- MODULE Spec2Model ----
(***************************************************************************)
(* Kira: a tree-walking interpreter (lexer -> parser -> evaluator).        *)
(*                                                                         *)
(* The evaluator of src/src/evaluator.py is modelled as an abstract        *)
(* machine.  `ctrl` is the node being evaluated, the value just returned   *)
(* or the Python exception in flight; `kont` is the stack of the Python    *)
(* frames of Evaluator.eval_* that wait for a sub-evaluation, innermost    *)
(* first.  Environments (src/src/environment.py), lists and Function       *)
(* objects are Python objects with identity: they live in `envs`, `heap`   *)
(* and `funcs` and are referred to by their index.                         *)
(***************************************************************************)
EXTENDS Integers, Sequences, FiniteSets, TLC

VARIABLES ctrl, kont, envs, heap, funcs, status, result, prog, front

vars == <<ctrl, kont, envs, heap, funcs, status, result, prog, front>>

(***************************************************************************)
(* Bounds of the model.                                                    *)
(***************************************************************************)
\* deepest nesting of if / while / for blocks around a statement under test
MaxNest == 2
\* number of calls of a counter closure, of loop iterations, of scope levels
MaxCalls == 3
\* most parameters and arguments of a call under test
MaxArgs == 2
\* most pairs of a dict literal under test
MaxPairs == 2
\* longest chain of binary operators given to the parser
MaxOps == 3
\* longest source given to the lexer, in characters
MaxLen == 3
\* semicolons in a row, and statements of a statement list
MaxSemis == 2
MaxStmts == 2
\* longest token list that follows no grammar, without its EOF
MaxTokens == 3
\* longest array given to a built-in
MaxItems == 2

(***************************************************************************)
(* Runtime values.  Every value is a record of the same shape:             *)
(*   t : the kind, n/d : the number (d is the denominator of a float),     *)
(*   s : the characters of a string, or the name of a built-in.            *)
(* A Python bool is an int (True = 1), an array is a reference into heap,  *)
(* a user function a reference into funcs.                                 *)
(***************************************************************************)
Null == [t |-> "null", n |-> 0, d |-> 1, s |-> <<>>]
BoolV(b) == [t |-> "bool", n |-> IF b THEN 1 ELSE 0, d |-> 1, s |-> <<>>]
IntV(i) == [t |-> "int", n |-> i, d |-> 1, s |-> <<>>]
FloatV(num, den) == [t |-> "float", n |-> num, d |-> den, s |-> <<>>]
StrV(chars) == [t |-> "str", n |-> 0, d |-> 1, s |-> chars]
ArrV(ref) == [t |-> "list", n |-> ref, d |-> 1, s |-> <<>>]
FnV(id) == [t |-> "Function", n |-> id, d |-> 1, s |-> <<>>]
BuiltinV(name) == [t |-> "BuiltinFunction", n |-> 0, d |-> 1, s |-> <<name>>]

\* isinstance(v, int): bool is a subclass of int
DictV(ref) == [t |-> "dict", n |-> ref, d |-> 1, s |-> <<>>]

IsInt(v) == v.t \in {"int", "bool"}
IsNumber(v) == v.t \in {"int", "bool", "float"}

(***************************************************************************)
(* Python exceptions.                                                      *)
(***************************************************************************)
NoExc == [cls |-> "none", msg |-> "", val |-> Null]
Exc(cls, msg) == [cls |-> cls, msg |-> msg, val |-> Null]
ReturnValue(v) == [cls |-> "ReturnValue", msg |-> "", val |-> v]
BreakSignal == Exc("BreakSignal", "")
ContinueSignal == Exc("ContinueSignal", "")
KiraRuntimeError(msg) == Exc("KiraRuntimeError", msg)
\* the host's built-in RuntimeError, raised by environment.py
RuntimeError(msg) == Exc("RuntimeError", msg)
TypeError(msg) == Exc("TypeError", msg)

(***************************************************************************)
(* AST nodes (src/src/ast_nodes.py).  `k` is the class name.               *)
(***************************************************************************)
NoNode == [k |-> "None"]
IntegerLiteral(v) == [k |-> "IntegerLiteral", value |-> v]
\* the value of a float literal is the float
FloatLiteral(v) == [k |-> "FloatLiteral", value |-> v]
StringLiteral(chars) == [k |-> "StringLiteral", value |-> chars]
BooleanLiteral(b) == [k |-> "BooleanLiteral", value |-> b]
NullLiteral == [k |-> "NullLiteral"]
ArrayLiteral(elems) == [k |-> "ArrayLiteral", elements |-> elems]
\* pairs: a sequence of [key, value] of expressions
DictLiteral(pairs) == [k |-> "DictLiteral", pairs |-> pairs]
Identifier(name) == [k |-> "Identifier", name |-> name]
IndexExpression(obj, idx) == [k |-> "IndexExpression", object |-> obj, index |-> idx]
BinaryOp(op, l, r) == [k |-> "BinaryOp", operator |-> op, left |-> l, right |-> r]
UnaryOp(op, e) == [k |-> "UnaryOp", operator |-> op, operand |-> e]
BlockStatement(stmts) == [k |-> "BlockStatement", statements |-> stmts]
FunctionLiteral(params, stmts) ==
    [k |-> "FunctionLiteral", parameters |-> params, body |-> BlockStatement(stmts)]
CallExpression(fn, args) == [k |-> "CallExpression", function |-> fn, arguments |-> args]
IfExpression(c, thn, els) ==
    [k |-> "IfExpression", condition |-> c, consequence |-> BlockStatement(thn),
     alternative |-> els]
Program(stmts) == [k |-> "Program", statements |-> stmts]
LetStatement(name, e) == [k |-> "LetStatement", name |-> name, value |-> e]
ConstStatement(name, e) == [k |-> "ConstStatement", name |-> name, value |-> e]
AssignStatement(name, op, e) ==
    [k |-> "AssignStatement", name |-> name, operator |-> op, value |-> e]
IndexAssignStatement(obj, idx, e) ==
    [k |-> "IndexAssignStatement", object |-> obj, index |-> idx, value |-> e]
ExpressionStatement(e) == [k |-> "ExpressionStatement", expression |-> e]
ReturnStatement(e) == [k |-> "ReturnStatement", value |-> e]
WhileStatement(c, stmts) ==
    [k |-> "WhileStatement", condition |-> c, body |-> BlockStatement(stmts)]
ForStatement(var, it, stmts) ==
    [k |-> "ForStatement", variable |-> var, iterable |-> it, body |-> BlockStatement(stmts)]
BreakStatement == [k |-> "BreakStatement"]
ContinueStatement == [k |-> "ContinueStatement"]
FunctionStatement(name, params, stmts) ==
    [k |-> "FunctionStatement", name |-> name, parameters |-> params,
     body |-> BlockStatement(stmts)]

(***************************************************************************)
(* Environment (src/src/environment.py).  An environment is              *)
(* [store, constants, parent]; parent = 0 is Python's None.                *)
(***************************************************************************)
EmptyStore == [x \in {} |-> Null]

Environment(parent) == [store |-> EmptyStore, constants |-> {}, parent |-> parent]

Bind(store, name, value) ==
    [x \in (DOMAIN store) \cup {name} |-> IF x = name THEN value ELSE store[x]]

RECURSIVE Environment_get(_, _, _)
Environment_get(es, e, name) ==
    IF name \in DOMAIN es[e].store
    THEN [value |-> es[e].store[name], found |-> TRUE]
    ELSE IF es[e].parent # 0
         THEN Environment_get(es, es[e].parent, name)
         ELSE [value |-> Null, found |-> FALSE]

\* A declaration that would overwrite a binding of the enclosing environment.
Environment_set_Overwrites(es, e, name, value, is_const) ==
    LET o == es[e].parent
        t == IF o # 0 /\ name \notin DOMAIN es[e].store /\ name \in DOMAIN es[o].store
             THEN o ELSE e
    IN IF name \in es[t].constants
       THEN [exc |-> RuntimeError("Cannot reassign constant"), envs |-> es]
       ELSE [exc |-> NoExc,
             envs |-> [es EXCEPT ![t].store = Bind(@, name, value),
                                 ![t].constants = IF is_const THEN @ \cup {name} ELSE @]]

Environment_set(es, e, name, value, is_const) ==
    IF name \in es[e].constants
    THEN [exc |-> RuntimeError("Cannot reassign constant"), envs |-> es]
    ELSE [exc |-> NoExc,
          envs |-> [es EXCEPT ![e].store = Bind(@, name, value),
                              ![e].constants = IF is_const THEN @ \cup {name} ELSE @]]

\* An assignment that would not look at the constants.
RECURSIVE Environment_assign_AnyBinding(_, _, _, _)
Environment_assign_AnyBinding(es, e, name, value) ==
    IF name \in DOMAIN es[e].store
    THEN [exc |-> NoExc, envs |-> [es EXCEPT ![e].store[name] = value]]
    ELSE IF es[e].parent # 0
         THEN Environment_assign_AnyBinding(es, es[e].parent, name, value)
         ELSE [exc |-> RuntimeError("Undefined variable"), envs |-> es]

\* An assignment that would bind an unbound name in the outermost environment.
RECURSIVE Environment_assign_Creates(_, _, _, _)
Environment_assign_Creates(es, e, name, value) ==
    IF name \in DOMAIN es[e].store
    THEN IF name \in es[e].constants
         THEN [exc |-> RuntimeError("Cannot reassign constant"), envs |-> es]
         ELSE [exc |-> NoExc, envs |-> [es EXCEPT ![e].store[name] = value]]
    ELSE IF es[e].parent # 0
         THEN Environment_assign_Creates(es, es[e].parent, name, value)
         ELSE [exc |-> NoExc, envs |-> [es EXCEPT ![e].store = Bind(@, name, value)]]

RECURSIVE Environment_assign(_, _, _, _)
Environment_assign(es, e, name, value) ==
    IF name \in DOMAIN es[e].store
    THEN IF name \in es[e].constants
         THEN [exc |-> RuntimeError("Cannot reassign constant"), envs |-> es]
         ELSE [exc |-> NoExc, envs |-> [es EXCEPT ![e].store[name] = value]]
    ELSE IF es[e].parent # 0
         THEN Environment_assign(es, es[e].parent, name, value)
         ELSE [exc |-> RuntimeError("Undefined variable"), envs |-> es]

(***************************************************************************)
(* The heap of containers.  A Python list is [k |-> "list", items]; a      *)
(* Python dict is [k |-> "dict", items] with items the entries [key, val]  *)
(* in the order the dict keeps them (the order of insertion).              *)
(***************************************************************************)
ListObj(items) == [k |-> "list", items |-> items]

DictObj(items) == [k |-> "dict", items |-> items]

Items(h, v) == h[v.n].items

Alloc(h, obj) == [heap |-> Append(h, obj), ref |-> Len(h) + 1]

(***************************************************************************)
(* Evaluator.is_truthy                                                     *)
(***************************************************************************)
\* A truthiness in which every array and dictionary is truthy.
is_truthy_Containers(h, value) ==
    IF value.t = "null" THEN FALSE
    ELSE IF value.t = "bool" THEN value.n = 1
    ELSE IF value.t \in {"int", "float"} THEN value.n # 0
    ELSE IF value.t = "str" THEN Len(value.s) > 0
    ELSE TRUE

is_truthy(h, value) ==
    IF value.t = "null" THEN FALSE
    ELSE IF value.t = "bool" THEN value.n = 1
    ELSE IF value.t \in {"int", "float"} THEN value.n # 0
    ELSE IF value.t = "str" THEN Len(value.s) > 0
    ELSE IF value.t \in {"list", "dict"} THEN Len(Items(h, value)) > 0
    ELSE TRUE

(***************************************************************************)
(* Host arithmetic on numbers.  A float is the exact quotient n/d, d > 0.  *)
(***************************************************************************)
Abs(i) == IF i < 0 THEN -i ELSE i

RECURSIVE Gcd(_, _)
Gcd(a, b) == IF b = 0 THEN a ELSE Gcd(b, a % b)

\* modulo of the host: the sign of the result follows the divisor
PyMod(a, b) == IF b > 0 THEN a % b ELSE -((-a) % (-b))

Float(num, den) ==
    LET g == Gcd(Abs(num), den) IN
    IF num = 0 THEN FloatV(0, 1) ELSE FloatV(num \div g, den \div g)

NumResult(l, r, num, den) ==
    IF l.t = "float" \/ r.t = "float" THEN Float(num, den) ELSE IntV(num)

RECURSIVE IntPow(_, _)
IntPow(a, b) == IF b = 0 THEN 1 ELSE a * IntPow(a, b - 1)

NumLess(l, r) == l.n * r.d < r.n * l.d
NumEq(l, r) == l.n * r.d = r.n * l.d

(***************************************************************************)
(* kira_str / kira_repr (src/src/builtins.py): the print form, as a        *)
(* sequence of characters.                                                 *)
(***************************************************************************)
Digit(i) == <<"0", "1", "2", "3", "4", "5", "6", "7", "8", "9">>[i + 1]

RECURSIVE NatStr(_)
NatStr(i) == IF i < 10 THEN <<Digit(i)>> ELSE NatStr(i \div 10) \o <<Digit(i % 10)>>

IntStr(i) == IF i < 0 THEN <<"-">> \o NatStr(-i) ELSE NatStr(i)

RECURSIVE kira_str(_, _)
RECURSIVE JoinRepr(_, _, _)
kira_repr(h, obj) ==
    IF obj.t = "str" THEN <<"\"">> \o obj.s \o <<"\"">> ELSE kira_str(h, obj)

JoinRepr(h, items, i) ==
    IF i > Len(items) THEN <<>>
    ELSE (IF i > 1 THEN <<",", " ">> ELSE <<>>)
         \o kira_repr(h, items[i]) \o JoinRepr(h, items, i + 1)

kira_str(h, obj) ==
    IF obj.t = "null" THEN <<"n", "u", "l", "l">>
    ELSE IF obj.t = "bool"
         THEN IF obj.n = 1 THEN <<"t", "r", "u", "e">> ELSE <<"f", "a", "l", "s", "e">>
    ELSE IF obj.t = "str" THEN obj.s
    ELSE IF obj.t = "list" THEN <<"[">> \o JoinRepr(h, Items(h, obj), 1) \o <<"]">>
    ELSE IF obj.t = "int" THEN IntStr(obj.n)
    ELSE <<"?">>

\* the kinds whose print form is modelled
RECURSIVE HasStr(_, _)
HasStr(h, obj) ==
    \/ obj.t \in {"null", "bool", "str", "int"}
    \/ /\ obj.t = "list"
       /\ \A i \in 1..Len(Items(h, obj)) : HasStr(h, Items(h, obj)[i])

(***************************************************************************)
(* Host equality (==) of two values.                                       *)
(***************************************************************************)
RECURSIVE PyEq(_, _, _, _)
PyEq(h, fs, l, r) ==
    IF IsNumber(l) /\ IsNumber(r) THEN NumEq(l, r)
    ELSE IF l.t # r.t THEN FALSE
    ELSE IF l.t = "null" THEN TRUE
    ELSE IF l.t = "str" THEN l.s = r.s
    ELSE IF l.t = "list"
         THEN \/ l.n = r.n
              \/ /\ Len(Items(h, l)) = Len(Items(h, r))
                 /\ \A i \in 1..Len(Items(h, l)) :
                        PyEq(h, fs, Items(h, l)[i], Items(h, r)[i])
    ELSE IF l.t = "dict"
         \* the same keys with equal values, in any order
         THEN \/ l.n = r.n
              \/ /\ Len(Items(h, l)) = Len(Items(h, r))
                 /\ \A i \in 1..Len(Items(h, l)) :
                        \E j \in 1..Len(Items(h, r)) :
                            /\ PyEq(h, fs, Items(h, l)[i].key, Items(h, r)[j].key)
                            /\ PyEq(h, fs, Items(h, l)[i].val, Items(h, r)[j].val)
    ELSE IF l.t = "Function"
         \* the dataclass __eq__ of Function: field by field
         THEN \/ l.n = r.n
              \/ /\ fs[l.n].parameters = fs[r.n].parameters
                 /\ fs[l.n].body = fs[r.n].body
                 /\ fs[l.n].env = fs[r.n].env
    ELSE l.s = r.s

(***************************************************************************)
(* Host operators used by the evaluator: left + right, left - right, ...   *)
(* Each yields [exc, val, heap]: the exception raised (or NoExc), the      *)
(* value and the heap (a list concatenation makes a new list).             *)
(***************************************************************************)
Ok(h, v) == [exc |-> NoExc, val |-> v, heap |-> h]
Err(h, x) == [exc |-> x, val |-> Null, heap |-> h]
\* an operand combination outside the modelled fragment of the host
Unmodelled(h) == Err(h, Exc("Unmodelled", ""))

NewList(h, items) ==
    LET a == Alloc(h, ListObj(items)) IN Ok(a.heap, ArrV(a.ref))

Repeat(seq, times) ==
    LET RECURSIVE Rep(_)
        Rep(i) == IF i <= 0 THEN <<>> ELSE seq \o Rep(i - 1)
    IN Rep(times)

PyAdd(h, l, r) ==
    IF IsNumber(l) /\ IsNumber(r)
    THEN Ok(h, NumResult(l, r, l.n * r.d + r.n * l.d, l.d * r.d))
    ELSE IF l.t = "str" /\ r.t = "str" THEN Ok(h, StrV(l.s \o r.s))
    ELSE IF l.t = "list" /\ r.t = "list" THEN NewList(h, Items(h, l) \o Items(h, r))
    ELSE Err(h, TypeError("unsupported operand type(s) for +"))

PySub(h, l, r) ==
    IF IsNumber(l) /\ IsNumber(r)
    THEN Ok(h, NumResult(l, r, l.n * r.d - r.n * l.d, l.d * r.d))
    ELSE Err(h, TypeError("unsupported operand type(s) for -"))

PyMul(h, l, r) ==
    IF IsNumber(l) /\ IsNumber(r)
    THEN Ok(h, NumResult(l, r, l.n * r.n, l.d * r.d))
    ELSE IF l.t = "str" /\ IsInt(r) THEN Ok(h, StrV(Repeat(l.s, r.n)))
    ELSE IF IsInt(l) /\ r.t = "str" THEN Ok(h, StrV(Repeat(r.s, l.n)))
    ELSE IF l.t = "list" /\ IsInt(r) THEN NewList(h, Repeat(Items(h, l), r.n))
    ELSE IF IsInt(l) /\ r.t = "list" THEN NewList(h, Repeat(Items(h, r), l.n))
    ELSE Err(h, TypeError("can't multiply"))

\* true division: always a float
PyDiv(h, l, r) ==
    IF IsNumber(l) /\ IsNumber(r)
    THEN IF r.n > 0 THEN Ok(h, Float(l.n * r.d, l.d * r.n))
         ELSE Ok(h, Float(-(l.n * r.d), l.d * (-r.n)))
    ELSE Err(h, TypeError("unsupported operand type(s) for /"))

PyModulo(h, l, r) ==
    IF IsInt(l) /\ IsInt(r) THEN Ok(h, IntV(PyMod(l.n, r.n)))
    ELSE IF l.t \in {"str", "float"} \/ r.t = "float" THEN Unmodelled(h)
    ELSE Err(h, TypeError("unsupported operand type(s) for %"))

PyPow(h, l, r) ==
    IF IsInt(l) /\ IsInt(r)
    THEN IF r.n >= 0 THEN Ok(h, IntV(IntPow(l.n, r.n)))
         ELSE IF l.n = 0 THEN Err(h, Exc("ZeroDivisionError", ""))
         ELSE IF l.n > 0 THEN Ok(h, Float(1, IntPow(l.n, -r.n)))
         ELSE Unmodelled(h)
    ELSE IF IsNumber(l) /\ IsNumber(r) THEN Unmodelled(h)
    ELSE Err(h, TypeError("unsupported operand type(s) for **"))

\* left < right; strings and lists compare lexicographically in the host
PyLess(h, l, r) ==
    IF IsNumber(l) /\ IsNumber(r) THEN Ok(h, BoolV(NumLess(l, r)))
    ELSE IF l.t = r.t /\ l.t \in {"str", "list"} THEN Unmodelled(h)
    ELSE Err(h, TypeError("'<' not supported"))

\* left <= right
PyLessEq(h, l, r) ==
    IF IsNumber(l) /\ IsNumber(r) THEN Ok(h, BoolV(NumLess(l, r) \/ NumEq(l, r)))
    ELSE IF l.t = r.t /\ l.t \in {"str", "list"} THEN Unmodelled(h)
    ELSE Err(h, TypeError("'<=' not supported"))

(***************************************************************************)
(* Evaluator.eval_BinaryOp after both operands are evaluated               *)
(* (evaluator.py 276-318).                                                 *)
(***************************************************************************)
ApplyBinaryOp(h, fs, op, left, right) ==
    IF op = "+"
    THEN IF left.t = "str" \/ right.t = "str"
         THEN IF HasStr(h, left) /\ HasStr(h, right)
              THEN Ok(h, StrV(kira_str(h, left) \o kira_str(h, right)))
              ELSE Unmodelled(h)
         ELSE PyAdd(h, left, right)
    ELSE IF op = "-" THEN PySub(h, left, right)
    ELSE IF op = "*" THEN PyMul(h, left, right)
    ELSE IF op = "/"
         THEN IF PyEq(h, fs, right, IntV(0))
              THEN Err(h, KiraRuntimeError("Division by zero"))
              ELSE PyDiv(h, left, right)
    ELSE IF op = "%"
         THEN IF PyEq(h, fs, right, IntV(0))
              THEN Err(h, KiraRuntimeError("Modulo by zero"))
              ELSE PyModulo(h, left, right)
    ELSE IF op = "**" THEN PyPow(h, left, right)
    ELSE IF op = "==" THEN Ok(h, BoolV(PyEq(h, fs, left, right)))
    ELSE IF op = "!=" THEN Ok(h, BoolV(~PyEq(h, fs, left, right)))
    ELSE IF op = "<" THEN PyLess(h, left, right)
    ELSE IF op = ">" THEN PyLess(h, right, left)
    ELSE IF op = "<=" THEN PyLessEq(h, left, right)
    ELSE IF op = ">=" THEN PyLessEq(h, right, left)
    ELSE Err(h, KiraRuntimeError("Unknown operator"))

(***************************************************************************)
(* Evaluator.eval_UnaryOp after the operand is evaluated.                  *)
(***************************************************************************)
ApplyUnaryOp(h, op, operand) ==
    IF op = "-"
    THEN IF operand.t = "float" THEN Ok(h, FloatV(-operand.n, operand.d))
         ELSE IF IsInt(operand) THEN Ok(h, IntV(-operand.n))
         ELSE Err(h, TypeError("bad operand type for unary -"))
    ELSE IF op = "not" THEN Ok(h, BoolV(~is_truthy(h, operand)))
    ELSE Err(h, KiraRuntimeError("Unknown unary operator"))

(***************************************************************************)
(* The host dict: result[key] = value, key in obj, obj[key].  Lists, dicts *)
(* and the two function dataclasses are unhashable; keys are the same when *)
(* they are equal (1, 1.0 and true are one key).                           *)
(***************************************************************************)
Hashable(v) == v.t \notin {"list", "dict", "Function", "BuiltinFunction"}

KeyEq(l, r) ==
    IF IsNumber(l) /\ IsNumber(r) THEN NumEq(l, r)
    ELSE l.t = r.t /\ l.s = r.s

\* the position of key among the entries; 0 when it is no key
DictFind(items, key) ==
    LET I == {i \in 1..Len(items) : KeyEq(items[i].key, key)}
    IN IF I = {} THEN 0 ELSE CHOOSE i \in I : TRUE

\* A dict that would move an overwritten key to the end.
DictSet_MovesToEnd(items, key, val) ==
    LET i == DictFind(items, key)
        rest == [j \in 1..(Len(items) - 1) |-> IF j < i THEN items[j] ELSE items[j + 1]]
    IN IF i # 0 THEN Append(rest, [key |-> key, val |-> val])
       ELSE Append(items, [key |-> key, val |-> val])

\* the entries after  d[key] = val : a present key keeps its place (and the
\* key object), a new key goes last
DictSet(items, key, val) ==
    LET i == DictFind(items, key)
    IN IF i # 0 THEN [items EXCEPT ![i].val = val]
       ELSE Append(items, [key |-> key, val |-> val])

(***************************************************************************)
(* Evaluator.eval_IndexExpression after object and index are evaluated.    *)
(***************************************************************************)
ApplyIndex(h, obj, index) ==
    IF obj.t = "list"
    THEN IF ~IsInt(index) THEN Err(h, KiraRuntimeError("Array index must be integer"))
         ELSE IF index.n < 0 \/ index.n >= Len(Items(h, obj))
              THEN Err(h, KiraRuntimeError("Array index out of bounds"))
              ELSE Ok(h, Items(h, obj)[index.n + 1])
    ELSE IF obj.t = "dict"
    THEN IF ~Hashable(index) THEN Err(h, TypeError("unhashable type"))
         ELSE IF DictFind(Items(h, obj), index) = 0
              THEN Err(h, KiraRuntimeError("Key not found"))
              ELSE Ok(h, Items(h, obj)[DictFind(Items(h, obj), index)].val)
    ELSE IF obj.t = "str"
    THEN IF ~IsInt(index) THEN Err(h, KiraRuntimeError("String index must be integer"))
         ELSE IF index.n < 0 \/ index.n >= Len(obj.s)
              THEN Err(h, KiraRuntimeError("String index out of bounds"))
              ELSE Ok(h, StrV(<<obj.s[index.n + 1]>>))
    ELSE Err(h, KiraRuntimeError("Cannot index into"))

(***************************************************************************)
(* Evaluator.eval_IndexAssignStatement after object, index and value are   *)
(* evaluated (evaluator.py 127-138).                                       *)
(***************************************************************************)
\* An index assignment that would append at index = length.
ApplyIndexAssign_Appends(h, obj, index, value) ==
    IF obj.t = "list"
    THEN IF ~IsInt(index) THEN Err(h, KiraRuntimeError("Array index must be integer"))
         ELSE IF index.n < 0 \/ index.n > Len(Items(h, obj))
              THEN Err(h, KiraRuntimeError("Array index out of bounds"))
              ELSE IF index.n = Len(Items(h, obj))
              THEN Ok([h EXCEPT ![obj.n].items = Append(@, value)], value)
              ELSE Ok([h EXCEPT ![obj.n].items[index.n + 1] = value], value)
    ELSE IF obj.t = "dict"
    THEN IF ~Hashable(index) THEN Err(h, TypeError("unhashable type"))
         ELSE Ok([h EXCEPT ![obj.n].items = DictSet(@, index, value)], value)
    ELSE Err(h, KiraRuntimeError("Cannot index into this type"))

ApplyIndexAssign(h, obj, index, value) ==
    IF obj.t = "list"
    THEN IF ~IsInt(index) THEN Err(h, KiraRuntimeError("Array index must be integer"))
         ELSE IF index.n < 0 \/ index.n >= Len(Items(h, obj))
              THEN Err(h, KiraRuntimeError("Array index out of bounds"))
              ELSE Ok([h EXCEPT ![obj.n].items[index.n + 1] = value], value)
    ELSE IF obj.t = "dict"
    THEN IF ~Hashable(index) THEN Err(h, TypeError("unhashable type"))
         ELSE Ok([h EXCEPT ![obj.n].items = DictSet(@, index, value)], value)
    ELSE Err(h, KiraRuntimeError("Cannot index into this type"))

(***************************************************************************)
(* Built-ins (src/src/builtins.py).  BUILTINS is the registry's key set.   *)
(***************************************************************************)
BUILTINS ==
    {"print", "println", "input", "len", "type", "str", "int", "float", "range",
     "push", "pop", "first", "last", "rest", "sorted", "reversed", "join", "keys",
     "values", "abs", "min", "max", "sum", "split", "upper", "lower", "strip",
     "replace", "contains"}

builtin_len(h, args) ==
    IF Len(args) # 1 THEN Err(h, TypeError("len() takes 1 positional argument"))
    ELSE IF args[1].t = "str" THEN Ok(h, IntV(Len(args[1].s)))
    ELSE IF args[1].t \in {"list", "dict"} THEN Ok(h, IntV(Len(Items(h, args[1]))))
    ELSE Err(h, KiraRuntimeError("len() not supported"))

builtin_push(h, args) ==
    IF Len(args) # 2 THEN Err(h, TypeError("push() takes 2 positional arguments"))
    ELSE IF args[1].t # "list" THEN Err(h, KiraRuntimeError("push() requires an array"))
    ELSE Ok([h EXCEPT ![args[1].n].items = Append(@, args[2])], args[1])

builtin_pop(h, args) ==
    IF Len(args) # 1 THEN Err(h, TypeError("pop() takes 1 positional argument"))
    ELSE IF args[1].t # "list" THEN Err(h, KiraRuntimeError("pop() requires an array"))
    ELSE IF Len(Items(h, args[1])) = 0 THEN Err(h, KiraRuntimeError("pop() on empty array"))
    ELSE LET items == Items(h, args[1])
         IN  Ok([h EXCEPT ![args[1].n].items = SubSeq(items, 1, Len(items) - 1)],
                items[Len(items)])

RECURSIVE sorted(_)
\* the host's sorted() on numbers: stable, ascending
sorted(items) ==
    IF items = <<>> THEN <<>>
    ELSE LET init == sorted(SubSeq(items, 1, Len(items) - 1))
             x == items[Len(items)]
             k == Cardinality({i \in 1..Len(init) : ~NumLess(x, init[i])})
         IN  SubSeq(init, 1, k) \o <<x>> \o SubSeq(init, k + 1, Len(init))

\* the host's reversed()
reversed(items) == [i \in 1..Len(items) |-> items[Len(items) + 1 - i]]

\* a sorted() that sorts the array itself and returns it
builtin_sorted_InPlace(h, args) ==
    IF Len(args) # 1 THEN Err(h, TypeError("sorted() takes 1 positional argument"))
    ELSE IF args[1].t # "list" THEN Err(h, KiraRuntimeError("sorted() requires an array"))
    ELSE Ok([h EXCEPT ![args[1].n].items = sorted(@)], args[1])

\* arrays of numbers, and arrays too short for a comparison
builtin_sorted(h, args) ==
    IF Len(args) # 1 THEN Err(h, TypeError("sorted() takes 1 positional argument"))
    ELSE IF args[1].t # "list" THEN Err(h, KiraRuntimeError("sorted() requires an array"))
    ELSE IF Len(Items(h, args[1])) <= 1 THEN NewList(h, Items(h, args[1]))
    ELSE IF \A i \in 1..Len(Items(h, args[1])) : IsNumber(Items(h, args[1])[i])
    THEN NewList(h, sorted(Items(h, args[1])))
    ELSE Unmodelled(h)

builtin_reversed(h, args) ==
    IF Len(args) # 1 THEN Err(h, TypeError("reversed() takes 1 positional argument"))
    ELSE IF args[1].t # "list" THEN Err(h, KiraRuntimeError("reversed() requires an array"))
    ELSE NewList(h, reversed(Items(h, args[1])))

builtin_keys(h, args) ==
    IF Len(args) # 1 THEN Err(h, TypeError("keys() takes 1 positional argument"))
    ELSE IF args[1].t # "dict" THEN Err(h, KiraRuntimeError("keys() requires a dict"))
    ELSE NewList(h, [i \in 1..Len(Items(h, args[1])) |-> Items(h, args[1])[i].key])

\* func.fn(*args) for the built-ins of the modelled fragment
CallBuiltin(h, name, args) ==
    IF name = "len" THEN builtin_len(h, args)
    ELSE IF name = "push" THEN builtin_push(h, args)
    ELSE IF name = "keys" THEN builtin_keys(h, args)
    ELSE IF name = "pop" THEN builtin_pop(h, args)
    ELSE IF name = "sorted" THEN builtin_sorted(h, args)
    ELSE IF name = "reversed" THEN builtin_reversed(h, args)
    ELSE Unmodelled(h)

(***************************************************************************)
(* The machine.                                                            *)
(*   ctrl.mode = "eval"  : Evaluator.eval(ctrl.node, ctrl.env) is entered  *)
(*               "ret"   : a call of eval returned ctrl.val to Head(kont)  *)
(*               "raise" : exception ctrl.exc is propagating               *)
(*               "apply" : apply_function(ctrl.val, ctrl.args) is entered  *)
(*               "halt"  : run_source has returned                         *)
(***************************************************************************)
Eval(node, env) ==
    [mode |-> "eval", node |-> node, env |-> env, val |-> Null, exc |-> NoExc, args |-> <<>>]
Ret(v) ==
    [mode |-> "ret", node |-> NoNode, env |-> 0, val |-> v, exc |-> NoExc, args |-> <<>>]
Raise(x) ==
    [mode |-> "raise", node |-> NoNode, env |-> 0, val |-> Null, exc |-> x, args |-> <<>>]
Apply(func, args) ==
    [mode |-> "apply", node |-> NoNode, env |-> 0, val |-> func, exc |-> NoExc, args |-> args]
Halt ==
    [mode |-> "halt", node |-> NoNode, env |-> 0, val |-> Null, exc |-> NoExc, args |-> <<>>]

\* the outcome r = [exc, val, ...] of a host operation, as the next ctrl
Outcome(r) == IF r.exc.cls = "none" THEN Ret(r.val) ELSE Raise(r.exc)

Push(frame) == <<frame>> \o kont
Replace(frame) == <<frame>> \o Tail(kont)

Evaluating(kind) == ctrl.mode = "eval" /\ ctrl.node.k = kind
Returned(frame) == ctrl.mode = "ret" /\ Len(kont) > 0 /\ Head(kont).f = frame

\* A handler whose loops would also stop on a return (ends the loop, not the call).
Handler_LoopEndsOnReturn(frame, exc) ==
    IF frame.f \in {"WhileBody", "ForBody"} /\ exc.cls \in {"BreakSignal", "ReturnValue"} THEN "break"
    ELSE IF frame.f \in {"WhileBody", "ForBody"} /\ exc.cls = "ContinueSignal" THEN "continue"
    ELSE IF frame.f = "Call" /\ exc.cls = "ReturnValue" THEN "return"
    ELSE "propagate"

\* A handler whose loops would end on a continue as on a break.
Handler_ContinueEndsLoop(frame, exc) ==
    IF frame.f \in {"WhileBody", "ForBody"} /\ exc.cls \in {"BreakSignal", "ContinueSignal"} THEN "break"
    ELSE IF frame.f = "Call" /\ exc.cls = "ReturnValue" THEN "return"
    ELSE "propagate"

(***************************************************************************)
(* The try/except of the evaluator: what the Python frame `frame` does     *)
(* with exception `exc` raised by the evaluation it waits for.             *)
(*   while / for  catch BreakSignal and ContinueSignal around the body     *)
(*                (evaluator.py 150-155, 167-172)                          *)
(*   apply_function catches ReturnValue around the body (384-388)          *)
(* Every other frame has no handler.                                       *)
(***************************************************************************)
Handler(frame, exc) ==
    IF frame.f \in {"WhileBody", "ForBody"} /\ exc.cls = "BreakSignal" THEN "break"
    ELSE IF frame.f \in {"WhileBody", "ForBody"} /\ exc.cls = "ContinueSignal"
         THEN "continue"
    ELSE IF frame.f = "Call" /\ exc.cls = "ReturnValue" THEN "return"
    ELSE "propagate"

Raised(frame, how) ==
    /\ ctrl.mode = "raise" /\ Len(kont) > 0
    /\ Head(kont).f = frame
    /\ Handler(Head(kont), ctrl.exc) = how

\* an exception leaves a frame that does not handle it
Propagate ==
    /\ ctrl.mode = "raise" /\ Len(kont) > 0
    /\ Handler(Head(kont), ctrl.exc) = "propagate"
    /\ kont' = Tail(kont)
    /\ UNCHANGED <<ctrl, envs, heap, funcs, status, result, prog, front>>

(***************************************************************************)
(* Program and statements.                                                 *)
(***************************************************************************)
\* Evaluator.eval_Program / eval_BlockStatement: result = None; the loop
StartStatements(frame) ==
    IF Len(ctrl.node.statements) = 0
    THEN ctrl' = Ret(Null) /\ kont' = kont
    ELSE /\ ctrl' = Eval(ctrl.node.statements[1], ctrl.env)
         /\ kont' = Push([f |-> frame, node |-> ctrl.node, env |-> ctrl.env, i |-> 1])

NextStatement ==
    LET fr == Head(kont) IN
    IF fr.i < Len(fr.node.statements)
    THEN /\ ctrl' = Eval(fr.node.statements[fr.i + 1], fr.env)
         /\ kont' = Replace([fr EXCEPT !.i = @ + 1])
    ELSE ctrl' = Ret(ctrl.val) /\ kont' = Tail(kont)

eval_Program ==
    /\ Evaluating("Program")
    /\ StartStatements("Program")
    /\ UNCHANGED <<envs, heap, funcs, status, result, prog, front>>

Program_next ==
    /\ Returned("Program")
    /\ NextStatement
    /\ UNCHANGED <<envs, heap, funcs, status, result, prog, front>>

\* A block that would be evaluated in an environment of its own.
eval_BlockStatement_Scoped ==
    /\ Evaluating("BlockStatement")
    /\ envs' = Append(envs, Environment(ctrl.env))
    /\ IF Len(ctrl.node.statements) = 0
       THEN ctrl' = Ret(Null) /\ kont' = kont
       ELSE /\ ctrl' = Eval(ctrl.node.statements[1], Len(envs) + 1)
            /\ kont' = Push([f |-> "Block", node |-> ctrl.node, env |-> Len(envs) + 1,
                             i |-> 1])
    /\ UNCHANGED <<heap, funcs, status, result, prog, front>>

eval_BlockStatement ==
    /\ Evaluating("BlockStatement")
    /\ StartStatements("Block")
    /\ UNCHANGED <<envs, heap, funcs, status, result, prog, front>>

BlockStatement_next ==
    /\ Returned("Block")
    /\ NextStatement
    /\ UNCHANGED <<envs, heap, funcs, status, result, prog, front>>

eval_ExpressionStatement ==
    /\ Evaluating("ExpressionStatement")
    /\ ctrl' = Eval(ctrl.node.expression, ctrl.env)
    /\ UNCHANGED <<kont, envs, heap, funcs, status, result, prog, front>>

\* value = self.eval(node.value, env)
EvalValueOf(frame) ==
    /\ ctrl' = Eval(ctrl.node.value, ctrl.env)
    /\ kont' = Push([f |-> frame, node |-> ctrl.node, env |-> ctrl.env])

eval_LetStatement ==
    /\ Evaluating("LetStatement")
    /\ EvalValueOf("Let")
    /\ UNCHANGED <<envs, heap, funcs, status, result, prog, front>>

\* env.set(node.name, value, is_const); return value
Declare(is_const) ==
    LET fr == Head(kont)
        r == Environment_set(envs, fr.env, fr.node.name, ctrl.val, is_const)
    IN /\ envs' = r.envs
       /\ ctrl' = IF r.exc.cls = "none" THEN Ret(ctrl.val) ELSE Raise(r.exc)
       /\ kont' = Tail(kont)

LetStatement_set ==
    /\ Returned("Let")
    /\ Declare(FALSE)
    /\ UNCHANGED <<heap, funcs, status, result, prog, front>>

eval_ConstStatement ==
    /\ Evaluating("ConstStatement")
    /\ EvalValueOf("Const")
    /\ UNCHANGED <<envs, heap, funcs, status, result, prog, front>>

ConstStatement_set ==
    /\ Returned("Const")
    /\ Declare(TRUE)
    /\ UNCHANGED <<heap, funcs, status, result, prog, front>>

eval_AssignStatement ==
    /\ Evaluating("AssignStatement")
    /\ EvalValueOf("Assign")
    /\ UNCHANGED <<envs, heap, funcs, status, result, prog, front>>

\* Evaluator.eval_AssignStatement after the value is evaluated (106-119):
\* [exc, envs, heap]
AssignOutcome(es, h, env, name, operator, value) ==
    IF operator = "="
    THEN LET r == Environment_assign(es, env, name, value)
         IN [exc |-> r.exc, envs |-> r.envs, heap |-> h]
    ELSE LET cur == Environment_get(es, env, name) IN
         IF ~cur.found
         THEN [exc |-> KiraRuntimeError("Undefined variable"), envs |-> es, heap |-> h]
         ELSE LET new == IF operator = "+=" THEN PyAdd(h, cur.value, value)
                         ELSE PySub(h, cur.value, value)
              IN IF new.exc.cls # "none"
                 THEN [exc |-> new.exc, envs |-> es, heap |-> h]
                 ELSE LET r == Environment_assign(es, env, name, new.val)
                      IN [exc |-> r.exc, envs |-> r.envs, heap |-> new.heap]

AssignStatement_assign ==
    /\ Returned("Assign")
    /\ LET fr == Head(kont)
           r == AssignOutcome(envs, heap, fr.env, fr.node.name, fr.node.operator, ctrl.val)
       IN /\ envs' = r.envs
          /\ heap' = r.heap
          /\ ctrl' = IF r.exc.cls = "none" THEN Ret(ctrl.val) ELSE Raise(r.exc)
    /\ kont' = Tail(kont)
    /\ UNCHANGED <<funcs, status, result, prog, front>>

\* Evaluator.eval_IndexAssignStatement: object, index, value, then the store
eval_IndexAssignStatement ==
    /\ Evaluating("IndexAssignStatement")
    /\ ctrl' = Eval(ctrl.node.object, ctrl.env)
    /\ kont' = Push([f |-> "AssignObject", node |-> ctrl.node, env |-> ctrl.env])
    /\ UNCHANGED <<envs, heap, funcs, status, result, prog, front>>

IndexAssignStatement_index ==
    /\ Returned("AssignObject")
    /\ ctrl' = Eval(Head(kont).node.index, Head(kont).env)
    /\ kont' = Replace([f |-> "AssignIndex", node |-> Head(kont).node,
                        env |-> Head(kont).env, obj |-> ctrl.val])
    /\ UNCHANGED <<envs, heap, funcs, status, result, prog, front>>

IndexAssignStatement_value ==
    /\ Returned("AssignIndex")
    /\ ctrl' = Eval(Head(kont).node.value, Head(kont).env)
    /\ kont' = Replace([f |-> "AssignValue", obj |-> Head(kont).obj, index |-> ctrl.val])
    /\ UNCHANGED <<envs, heap, funcs, status, result, prog, front>>

IndexAssignStatement_store ==
    /\ Returned("AssignValue")
    /\ LET r == ApplyIndexAssign(heap, Head(kont).obj, Head(kont).index, ctrl.val)
       IN /\ heap' = r.heap
          /\ ctrl' = Outcome(r)
    /\ kont' = Tail(kont)
    /\ UNCHANGED <<envs, funcs, status, result, prog, front>>

\* Evaluator.eval_ReturnStatement: value = None; if node.value: ...
eval_ReturnStatement ==
    /\ Evaluating("ReturnStatement")
    /\ IF ctrl.node.value.k = "None"
       THEN ctrl' = Raise(ReturnValue(Null)) /\ kont' = kont
       ELSE EvalValueOf("Return")
    /\ UNCHANGED <<envs, heap, funcs, status, result, prog, front>>

ReturnStatement_raise ==
    /\ Returned("Return")
    /\ ctrl' = Raise(ReturnValue(ctrl.val))
    /\ kont' = Tail(kont)
    /\ UNCHANGED <<envs, heap, funcs, status, result, prog, front>>

eval_BreakStatement ==
    /\ Evaluating("BreakStatement")
    /\ ctrl' = Raise(BreakSignal)
    /\ UNCHANGED <<kont, envs, heap, funcs, status, result, prog, front>>

eval_ContinueStatement ==
    /\ Evaluating("ContinueStatement")
    /\ ctrl' = Raise(ContinueSignal)
    /\ UNCHANGED <<kont, envs, heap, funcs, status, result, prog, front>>

(***************************************************************************)
(* Loops.                                                                  *)
(***************************************************************************)
eval_WhileStatement ==
    /\ Evaluating("WhileStatement")
    /\ ctrl' = Eval(ctrl.node.condition, ctrl.env)
    /\ kont' = Push([f |-> "WhileCond", node |-> ctrl.node, env |-> ctrl.env])
    /\ UNCHANGED <<envs, heap, funcs, status, result, prog, front>>

\* while self.is_truthy(<condition>): try: self.eval(node.body, env)
WhileStatement_test ==
    /\ Returned("WhileCond")
    /\ IF is_truthy(heap, ctrl.val)
       THEN /\ ctrl' = Eval(Head(kont).node.body, Head(kont).env)
            /\ kont' = Replace([Head(kont) EXCEPT !.f = "WhileBody"])
       ELSE ctrl' = Ret(Null) /\ kont' = Tail(kont)
    /\ UNCHANGED <<envs, heap, funcs, status, result, prog, front>>

\* the next iteration of a while: the condition is evaluated again
WhileAgain ==
    /\ ctrl' = Eval(Head(kont).node.condition, Head(kont).env)
    /\ kont' = Replace([Head(kont) EXCEPT !.f = "WhileCond"])

WhileStatement_next ==
    /\ Returned("WhileBody")
    /\ WhileAgain
    /\ UNCHANGED <<envs, heap, funcs, status, result, prog, front>>

WhileStatement_break ==
    /\ Raised("WhileBody", "break")
    /\ ctrl' = Ret(Null)
    /\ kont' = Tail(kont)
    /\ UNCHANGED <<envs, heap, funcs, status, result, prog, front>>

WhileStatement_continue ==
    /\ Raised("WhileBody", "continue")
    /\ WhileAgain
    /\ UNCHANGED <<envs, heap, funcs, status, result, prog, front>>

eval_ForStatement ==
    /\ Evaluating("ForStatement")
    /\ ctrl' = Eval(ctrl.node.iterable, ctrl.env)
    /\ kont' = Push([f |-> "ForIter", node |-> ctrl.node, env |-> ctrl.env])
    /\ UNCHANGED <<envs, heap, funcs, status, result, prog, front>>

\* hasattr(iterable, '__iter__')
IsIterable(v) == v.t \in {"list", "str", "dict"}

\* what the host iterator over `iterable` yields at position i (from 0):
\* a list is read when the item is asked for, not when the loop starts
IterLen(h, iterable) ==
    IF iterable.t \in {"list", "dict"} THEN Len(Items(h, iterable)) ELSE Len(iterable.s)
\* An iterator that would yield the values of a dictionary.
IterItem_DictValues(h, iterable, i) ==
    IF iterable.t = "list" THEN Items(h, iterable)[i + 1]
    ELSE IF iterable.t = "dict" THEN Items(h, iterable)[i + 1].val
    ELSE StrV(<<iterable.s[i + 1]>>)
IterItem(h, iterable, i) ==
    IF iterable.t = "list" THEN Items(h, iterable)[i + 1]
    ELSE IF iterable.t = "dict" THEN Items(h, iterable)[i + 1].key
    ELSE StrV(<<iterable.s[i + 1]>>)

\* for item in iterable: env.set(node.variable, item); try: self.eval(body)
\* fr is the frame of the loop, i the number of items taken so far
ForNext(fr, iterable, i) ==
    IF i >= IterLen(heap, iterable)
    THEN ctrl' = Ret(Null) /\ kont' = Tail(kont) /\ envs' = envs
    ELSE LET r == Environment_set(envs, fr.env, fr.node.variable,
                                  IterItem(heap, iterable, i), FALSE)
         IN /\ envs' = r.envs
            /\ IF r.exc.cls # "none"
               THEN ctrl' = Raise(r.exc) /\ kont' = Tail(kont)
               ELSE /\ ctrl' = Eval(fr.node.body, fr.env)
                    /\ kont' = Replace([f |-> "ForBody", node |-> fr.node, env |-> fr.env,
                                        iterable |-> iterable, i |-> i + 1])

\* A for loop that would iterate over a copy of the array, taken when the
\* iterable has been evaluated.
ForStatement_iter_Snapshot ==
    /\ Returned("ForIter")
    /\ IF ~IsIterable(ctrl.val)
       THEN /\ ctrl' = Raise(KiraRuntimeError("Cannot iterate over"))
            /\ kont' = Tail(kont)
            /\ envs' = envs
            /\ heap' = heap
       ELSE IF ctrl.val.t = "list" /\ Len(Items(heap, ctrl.val)) > 0
       THEN LET fr == Head(kont)
                copy == Alloc(heap, ListObj(Items(heap, ctrl.val)))
                r == Environment_set(envs, fr.env, fr.node.variable,
                                     Items(heap, ctrl.val)[1], FALSE)
            IN  /\ heap' = copy.heap
                /\ envs' = r.envs
                /\ IF r.exc.cls # "none"
                   THEN ctrl' = Raise(r.exc) /\ kont' = Tail(kont)
                   ELSE /\ ctrl' = Eval(fr.node.body, fr.env)
                        /\ kont' = Replace([f |-> "ForBody", node |-> fr.node,
                                            env |-> fr.env, iterable |-> ArrV(copy.ref),
                                            i |-> 1])
       ELSE ForNext(Head(kont), ctrl.val, 0) /\ heap' = heap
    /\ UNCHANGED <<funcs, status, result, prog, front>>

ForStatement_iter ==
    /\ Returned("ForIter")
    /\ IF ~IsIterable(ctrl.val)
       THEN /\ ctrl' = Raise(KiraRuntimeError("Cannot iterate over"))
            /\ kont' = Tail(kont)
            /\ envs' = envs
       ELSE ForNext(Head(kont), ctrl.val, 0)
    /\ UNCHANGED <<heap, funcs, status, result, prog, front>>

ForStatement_next ==
    /\ Returned("ForBody")
    /\ ForNext(Head(kont), Head(kont).iterable, Head(kont).i)
    /\ UNCHANGED <<heap, funcs, status, result, prog, front>>

ForStatement_break ==
    /\ Raised("ForBody", "break")
    /\ ctrl' = Ret(Null)
    /\ kont' = Tail(kont)
    /\ UNCHANGED <<envs, heap, funcs, status, result, prog, front>>

ForStatement_continue ==
    /\ Raised("ForBody", "continue")
    /\ ForNext(Head(kont), Head(kont).iterable, Head(kont).i)
    /\ UNCHANGED <<heap, funcs, status, result, prog, front>>

(***************************************************************************)
(* Functions.                                                              *)
(***************************************************************************)
\* A function value that would keep a copy of the environment.
MakeFunction_Snapshot(es, fs, node, env) ==
    [envs |-> Append(es, es[env]),
     funcs |-> Append(fs, [parameters |-> node.parameters, body |-> node.body,
                           env |-> Len(es) + 1]),
     val |-> FnV(Len(fs) + 1)]

\* Function(parameters=node.parameters, body=node.body, env=env, name=...):
\* the function value keeps a reference to env
MakeFunction(es, fs, node, env) ==
    [envs |-> es,
     funcs |-> Append(fs, [parameters |-> node.parameters, body |-> node.body,
                           env |-> env]),
     val |-> FnV(Len(fs) + 1)]

eval_FunctionStatement ==
    /\ Evaluating("FunctionStatement")
    /\ LET m == MakeFunction(envs, funcs, ctrl.node, ctrl.env)
           r == Environment_set(m.envs, ctrl.env, ctrl.node.name, m.val, FALSE)
       IN /\ funcs' = m.funcs
          /\ envs' = r.envs
          /\ ctrl' = IF r.exc.cls = "none" THEN Ret(m.val) ELSE Raise(r.exc)
    /\ UNCHANGED <<kont, heap, status, result, prog, front>>

eval_FunctionLiteral ==
    /\ Evaluating("FunctionLiteral")
    /\ LET m == MakeFunction(envs, funcs, ctrl.node, ctrl.env)
       IN /\ funcs' = m.funcs
          /\ envs' = m.envs
          /\ ctrl' = Ret(m.val)
    /\ UNCHANGED <<kont, heap, status, result, prog, front>>

eval_CallExpression ==
    /\ Evaluating("CallExpression")
    /\ ctrl' = Eval(ctrl.node.function, ctrl.env)
    /\ kont' = Push([f |-> "CallFn", node |-> ctrl.node, env |-> ctrl.env])
    /\ UNCHANGED <<envs, heap, funcs, status, result, prog, front>>

\* A call that would evaluate its arguments from the last to the first.
NextArgument_RightToLeft(fr, func, done) ==
    IF Len(done) < Len(fr.node.arguments)
    THEN /\ ctrl' = Eval(fr.node.arguments[Len(fr.node.arguments) - Len(done)], fr.env)
         /\ kont' = Replace([f |-> "CallArg", node |-> fr.node, env |-> fr.env,
                             func |-> func, done |-> done])
    ELSE /\ ctrl' = Apply(func, [i \in 1..Len(done) |-> done[Len(done) + 1 - i]])
         /\ kont' = Tail(kont)

\* args = [self.eval(arg, env) for arg in node.arguments]; fr waits for
\* argument number Len(done) + 1
NextArgument(fr, func, done) ==
    IF Len(done) < Len(fr.node.arguments)
    THEN /\ ctrl' = Eval(fr.node.arguments[Len(done) + 1], fr.env)
         /\ kont' = Replace([f |-> "CallArg", node |-> fr.node, env |-> fr.env,
                             func |-> func, done |-> done])
    ELSE /\ ctrl' = Apply(func, done)
         /\ kont' = Tail(kont)

CallExpression_func ==
    /\ Returned("CallFn")
    /\ NextArgument(Head(kont), ctrl.val, <<>>)
    /\ UNCHANGED <<envs, heap, funcs, status, result, prog, front>>

CallExpression_arg ==
    /\ Returned("CallArg")
    /\ NextArgument(Head(kont), Head(kont).func, Append(Head(kont).done, ctrl.val))
    /\ UNCHANGED <<envs, heap, funcs, status, result, prog, front>>

\* apply_function, isinstance(func, BuiltinFunction): a TypeError of the
\* host call becomes a KiraRuntimeError
apply_function_builtin ==
    /\ ctrl.mode = "apply" /\ ctrl.val.t = "BuiltinFunction"
    /\ LET r == CallBuiltin(heap, ctrl.val.s[1], ctrl.args)
       IN /\ heap' = r.heap
          /\ ctrl' = IF r.exc.cls = "TypeError"
                     THEN Raise(KiraRuntimeError("Error calling"))
                     ELSE Outcome(r)
    /\ UNCHANGED <<kont, envs, funcs, status, result, prog, front>>

\* func_env = Environment(parent=func.env); the parameters are bound in it
\* in order (zip): [envs, env]
RECURSIVE BindParameters(_, _, _, _, _)
BindParameters(es, e, params, args, i) ==
    IF i > Len(params) \/ i > Len(args) THEN es
    ELSE BindParameters(Environment_set(es, e, params[i], args[i], FALSE).envs,
                        e, params, args, i + 1)

\* A call that would bind the parameters in the captured environment itself.
CallEnvironment_NoFresh(es, fs, f, args) ==
    [envs |-> BindParameters(es, fs[f].env, fs[f].parameters, args, 1),
     env |-> fs[f].env]

CallEnvironment(es, fs, f, args) ==
    LET e == Len(es) + 1
    IN [envs |-> BindParameters(Append(es, Environment(fs[f].env)), e,
                                fs[f].parameters, args, 1),
        env |-> e]

\* A call that would not compare the number of arguments.
apply_function_user_AnyArity ==
    /\ ctrl.mode = "apply" /\ ctrl.val.t = "Function"
    /\ LET fn == funcs[ctrl.val.n]
           c == CallEnvironment(envs, funcs, ctrl.val.n, ctrl.args)
       IN /\ envs' = c.envs
          /\ ctrl' = Eval(fn.body, c.env)
          /\ kont' = Push([f |-> "Call", func |-> ctrl.val.n, env |-> c.env])
    /\ UNCHANGED <<heap, funcs, status, result, prog, front>>

apply_function_user ==
    /\ ctrl.mode = "apply" /\ ctrl.val.t = "Function"
    /\ LET fn == funcs[ctrl.val.n] IN
       IF Len(ctrl.args) # Len(fn.parameters)
       THEN /\ ctrl' = Raise(KiraRuntimeError("Expected arguments"))
            /\ UNCHANGED <<kont, envs>>
       ELSE LET c == CallEnvironment(envs, funcs, ctrl.val.n, ctrl.args)
            IN /\ envs' = c.envs
               /\ ctrl' = Eval(fn.body, c.env)
               /\ kont' = Push([f |-> "Call", func |-> ctrl.val.n, env |-> c.env])
    /\ UNCHANGED <<heap, funcs, status, result, prog, front>>

apply_function_not_callable ==
    /\ ctrl.mode = "apply" /\ ctrl.val.t \notin {"BuiltinFunction", "Function"}
    /\ ctrl' = Raise(KiraRuntimeError("Cannot call"))
    /\ UNCHANGED <<kont, envs, heap, funcs, status, result, prog, front>>

\* result = self.eval(func.body, func_env); return result
apply_function_result ==
    /\ Returned("Call")
    /\ ctrl' = Ret(ctrl.val)
    /\ kont' = Tail(kont)
    /\ UNCHANGED <<envs, heap, funcs, status, result, prog, front>>

\* except ReturnValue as rv: return rv.value
apply_function_return ==
    /\ Raised("Call", "return")
    /\ ctrl' = Ret(ctrl.exc.val)
    /\ kont' = Tail(kont)
    /\ UNCHANGED <<envs, heap, funcs, status, result, prog, front>>

(***************************************************************************)
(* Expressions.                                                            *)
(***************************************************************************)
eval_IntegerLiteral ==
    /\ Evaluating("IntegerLiteral")
    /\ ctrl' = Ret(IntV(ctrl.node.value))
    /\ UNCHANGED <<kont, envs, heap, funcs, status, result, prog, front>>

eval_StringLiteral ==
    /\ Evaluating("StringLiteral")
    /\ ctrl' = Ret(StrV(ctrl.node.value))
    /\ UNCHANGED <<kont, envs, heap, funcs, status, result, prog, front>>

eval_BooleanLiteral ==
    /\ Evaluating("BooleanLiteral")
    /\ ctrl' = Ret(BoolV(ctrl.node.value))
    /\ UNCHANGED <<kont, envs, heap, funcs, status, result, prog, front>>

eval_NullLiteral ==
    /\ Evaluating("NullLiteral")
    /\ ctrl' = Ret(Null)
    /\ UNCHANGED <<kont, envs, heap, funcs, status, result, prog, front>>

\* [self.eval(elem, env) for elem in node.elements]: with the elements
\* `done` evaluated, the next one is evaluated or the list is made
NextElement(node, env, done, rest) ==
    IF Len(done) < Len(node.elements)
    THEN /\ ctrl' = Eval(node.elements[Len(done) + 1], env)
         /\ kont' = <<[f |-> "ArrayElem", node |-> node, env |-> env, done |-> done]>>
                    \o rest
         /\ heap' = heap
    ELSE LET r == NewList(heap, done)
         IN /\ ctrl' = Ret(r.val)
            /\ heap' = r.heap
            /\ kont' = rest

eval_ArrayLiteral ==
    /\ Evaluating("ArrayLiteral")
    /\ NextElement(ctrl.node, ctrl.env, <<>>, kont)
    /\ UNCHANGED <<envs, funcs, status, result, prog, front>>

ArrayLiteral_next ==
    /\ Returned("ArrayElem")
    /\ NextElement(Head(kont).node, Head(kont).env, Append(Head(kont).done, ctrl.val),
                   Tail(kont))
    /\ UNCHANGED <<envs, funcs, status, result, prog, front>>

\* Evaluator.eval_DictLiteral: for each pair the key, then the value, then
\* result[key] = value; `items` are the entries so far
NextPair(node, env, items, i, rest) ==
    IF i <= Len(node.pairs)
    THEN /\ ctrl' = Eval(node.pairs[i].key, env)
         /\ kont' = <<[f |-> "DictKey", node |-> node, env |-> env, items |-> items,
                       i |-> i]>> \o rest
         /\ heap' = heap
    ELSE LET a == Alloc(heap, DictObj(items))
         IN /\ ctrl' = Ret(DictV(a.ref))
            /\ heap' = a.heap
            /\ kont' = rest

eval_DictLiteral ==
    /\ Evaluating("DictLiteral")
    /\ NextPair(ctrl.node, ctrl.env, <<>>, 1, kont)
    /\ UNCHANGED <<envs, funcs, status, result, prog, front>>

DictLiteral_key ==
    /\ Returned("DictKey")
    /\ LET fr == Head(kont) IN
       /\ ctrl' = Eval(fr.node.pairs[fr.i].value, fr.env)
       /\ kont' = Replace([f |-> "DictValue", node |-> fr.node, env |-> fr.env,
                           items |-> fr.items, i |-> fr.i, key |-> ctrl.val])
    /\ UNCHANGED <<envs, heap, funcs, status, result, prog, front>>

DictLiteral_value ==
    /\ Returned("DictValue")
    /\ LET fr == Head(kont) IN
       IF ~Hashable(fr.key)
       THEN /\ ctrl' = Raise(TypeError("unhashable type"))
            /\ kont' = Tail(kont)
            /\ heap' = heap
       ELSE NextPair(fr.node, fr.env, DictSet(fr.items, fr.key, ctrl.val), fr.i + 1,
                     Tail(kont))
    /\ UNCHANGED <<envs, funcs, status, result, prog, front>>

\* A lookup that would try the built-ins first.
LookupIdentifier_BuiltinFirst(es, env, name) ==
    LET r == Environment_get(es, env, name) IN
    IF name \in BUILTINS THEN [exc |-> NoExc, val |-> BuiltinV(name)]
    ELSE IF r.found THEN [exc |-> NoExc, val |-> r.value]
    ELSE [exc |-> KiraRuntimeError("Undefined variable"), val |-> Null]

\* Evaluator.eval_Identifier: the environment chain, then BUILTINS
LookupIdentifier(es, env, name) ==
    LET r == Environment_get(es, env, name) IN
    IF r.found THEN [exc |-> NoExc, val |-> r.value]
    ELSE IF name \in BUILTINS THEN [exc |-> NoExc, val |-> BuiltinV(name)]
    ELSE [exc |-> KiraRuntimeError("Undefined variable"), val |-> Null]

eval_Identifier ==
    /\ Evaluating("Identifier")
    /\ ctrl' = Outcome(LookupIdentifier(envs, ctrl.env, ctrl.node.name))
    /\ UNCHANGED <<kont, envs, heap, funcs, status, result, prog, front>>

eval_IndexExpression ==
    /\ Evaluating("IndexExpression")
    /\ ctrl' = Eval(ctrl.node.object, ctrl.env)
    /\ kont' = Push([f |-> "IndexObject", node |-> ctrl.node, env |-> ctrl.env])
    /\ UNCHANGED <<envs, heap, funcs, status, result, prog, front>>

IndexExpression_index ==
    /\ Returned("IndexObject")
    /\ ctrl' = Eval(Head(kont).node.index, Head(kont).env)
    /\ kont' = Replace([f |-> "IndexIndex", obj |-> ctrl.val])
    /\ UNCHANGED <<envs, heap, funcs, status, result, prog, front>>

IndexExpression_apply ==
    /\ Returned("IndexIndex")
    /\ ctrl' = Outcome(ApplyIndex(heap, Head(kont).obj, ctrl.val))
    /\ kont' = Tail(kont)
    /\ UNCHANGED <<envs, heap, funcs, status, result, prog, front>>

eval_BinaryOp ==
    /\ Evaluating("BinaryOp")
    /\ ctrl' = Eval(ctrl.node.left, ctrl.env)
    /\ kont' = Push([f |-> IF ctrl.node.operator \in {"and", "or"}
                           THEN "Logical" ELSE "BinaryLeft",
                     node |-> ctrl.node, env |-> ctrl.env])
    /\ UNCHANGED <<envs, heap, funcs, status, result, prog, front>>

\* the short circuit of and / or (evaluator.py 261-271): with the left
\* operand evaluated, the operation returns it or goes on with the right one
ShortCircuit(h, operator, left) ==
    IF operator = "and" THEN ~is_truthy(h, left) ELSE is_truthy(h, left)

\* An and / or that would give the truth value of the left operand.
LogicalNext_Coerced(h, node, env, left) ==
    IF ShortCircuit(h, node.operator, left) THEN Ret(BoolV(is_truthy(h, left)))
    ELSE Eval(node.right, env)

LogicalNext(h, node, env, left) ==
    IF ShortCircuit(h, node.operator, left) THEN Ret(left) ELSE Eval(node.right, env)

BinaryOp_logical ==
    /\ Returned("Logical")
    /\ ctrl' = LogicalNext(heap, Head(kont).node, Head(kont).env, ctrl.val)
    /\ kont' = Tail(kont)
    /\ UNCHANGED <<envs, heap, funcs, status, result, prog, front>>

BinaryOp_right ==
    /\ Returned("BinaryLeft")
    /\ ctrl' = Eval(Head(kont).node.right, Head(kont).env)
    /\ kont' = Replace([f |-> "BinaryRight", node |-> Head(kont).node, left |-> ctrl.val])
    /\ UNCHANGED <<envs, heap, funcs, status, result, prog, front>>

BinaryOp_apply ==
    /\ Returned("BinaryRight")
    /\ LET r == ApplyBinaryOp(heap, funcs, Head(kont).node.operator, Head(kont).left, ctrl.val)
       IN /\ heap' = r.heap
          /\ ctrl' = Outcome(r)
    /\ kont' = Tail(kont)
    /\ UNCHANGED <<envs, funcs, status, result, prog, front>>

eval_UnaryOp ==
    /\ Evaluating("UnaryOp")
    /\ ctrl' = Eval(ctrl.node.operand, ctrl.env)
    /\ kont' = Push([f |-> "Unary", node |-> ctrl.node])
    /\ UNCHANGED <<envs, heap, funcs, status, result, prog, front>>

UnaryOp_apply ==
    /\ Returned("Unary")
    /\ ctrl' = Outcome(ApplyUnaryOp(heap, Head(kont).node.operator, ctrl.val))
    /\ kont' = Tail(kont)
    /\ UNCHANGED <<envs, heap, funcs, status, result, prog, front>>

eval_IfExpression ==
    /\ Evaluating("IfExpression")
    /\ ctrl' = Eval(ctrl.node.condition, ctrl.env)
    /\ kont' = Push([f |-> "IfCond", node |-> ctrl.node, env |-> ctrl.env])
    /\ UNCHANGED <<envs, heap, funcs, status, result, prog, front>>

IfExpression_branch ==
    /\ Returned("IfCond")
    /\ ctrl' = IF is_truthy(heap, ctrl.val)
               THEN Eval(Head(kont).node.consequence, Head(kont).env)
               ELSE IF Head(kont).node.alternative.k # "None"
                    THEN Eval(Head(kont).node.alternative, Head(kont).env)
                    ELSE Ret(Null)
    /\ kont' = Tail(kont)
    /\ UNCHANGED <<envs, heap, funcs, status, result, prog, front>>

(***************************************************************************)
(* run_source (src/kira.py 42-73): the embedder's entry point.  status is  *)
(* the kind of message it prints.                                          *)
(***************************************************************************)
\* the except clause of run_source that takes the exception
ErrorKind(exc) ==
    IF exc.cls = "KiraRuntimeError" THEN "Runtime Error" ELSE "Internal Error"

run_source_ok ==
    /\ ctrl.mode = "ret" /\ Len(kont) = 0
    /\ ctrl' = Halt
    /\ status' = "ok"
    /\ result' = ctrl.val
    /\ UNCHANGED <<kont, envs, heap, funcs, prog, front>>

run_source_except ==
    /\ ctrl.mode = "raise" /\ Len(kont) = 0
    /\ ctrl' = [Halt EXCEPT !.exc = ctrl.exc]
    /\ status' = ErrorKind(ctrl.exc)
    /\ UNCHANGED <<kont, envs, heap, funcs, result, prog, front>>

(***************************************************************************)
(* The programs run.  A program is described by prog = [id, w, op, a, b]   *)
(* and built as an AST by Source(prog); the Kira text of each family is    *)
(* given in the comment before it.                                         *)
(***************************************************************************)
Desc(id, w, op, a, b) == [id |-> id, w |-> w, op |-> op, a |-> a, b |-> b]

Num(i) == IntegerLiteral(i)
Id(name) == Identifier(name)
Let(name, e) == LetStatement(name, e)
Set(name, e) == AssignStatement(name, "=", e)
Inc(name) == Set(name, BinaryOp("+", Id(name), Num(1)))
Call(name, args) == CallExpression(Id(name), args)
Do(e) == ExpressionStatement(e)
If(c, stmts) == Do(IfExpression(c, stmts, NoNode))

\* the array literal [1, ..., n]
UpTo(n) == ArrayLiteral([i \in 1..n |-> Num(i)])

\* stmts inside nested blocks, w[1] outermost:
\*   if true { .. } / while true { .. } / for i in [1, 2] { .. }
WrapOne(kind, stmts) ==
    IF kind = "if" THEN If(BooleanLiteral(TRUE), stmts)
    ELSE IF kind = "while" THEN WhileStatement(BooleanLiteral(TRUE), stmts)
    ELSE ForStatement("i", UpTo(2), stmts)

RECURSIVE Wrap(_, _)
Wrap(w, stmts) ==
    IF Len(w) = 0 THEN stmts ELSE <<WrapOne(Head(w), Wrap(Tail(w), stmts))>>

\* stmts inside d nested functions, each called at once:
\*   fn h() { fn h() { .. }; h() }; h()
RECURSIVE Nested(_, _)
Nested(d, stmts) ==
    IF d = 0 THEN stmts
    ELSE <<FunctionStatement("h", <<>>, Nested(d - 1, stmts)), Do(Call("h", <<>>))>>

NestsOver(kinds, n) == UNION {[1..k -> kinds] : k \in 0..n}

\* "return":
\*   let after = 0; let iters = 0
\*   fn f() { W{ iters = iters + 1; return 7; after = 1 }; after = after + 2; 99 }
\*   let r = f(); let cont = 1            (op = "bare": return without value)
ReturnProgram(p) ==
    <<Let("after", Num(0)), Let("iters", Num(0)),
      FunctionStatement("f", <<>>,
          Wrap(p.w, <<Inc("iters"),
                      ReturnStatement(IF p.op = "bare" THEN NoNode ELSE Num(7)),
                      Set("after", Num(1))>>)
          \o <<Set("after", BinaryOp("+", Id("after"), Num(2))), Do(Num(99))>>),
      Let("r", Call("f", <<>>)),
      Let("cont", Num(1))>>

\* "inner":
\*   let n = 0
\*   fn g() { W{ return 1 }; 50 }
\*   fn f() { let s = 0; for i in [1, 2] { s = s + g(); n = n + 1 }; return s; 60 }
\*   let r = f()
InnerProgram(p) ==
    <<Let("n", Num(0)),
      FunctionStatement("g", <<>>, Wrap(p.w, <<ReturnStatement(Num(1))>>) \o <<Do(Num(50))>>),
      FunctionStatement("f", <<>>,
          <<Let("s", Num(0)),
            ForStatement("i", UpTo(2),
                <<Set("s", BinaryOp("+", Id("s"), Call("g", <<>>))), Inc("n")>>),
            ReturnStatement(Id("s")),
            Do(Num(60))>>),
      Let("r", Call("f", <<>>))>>

\* "stray":  W{ return 5 } | W{ return } | W{ break } | W{ continue }
\*   at top level (a = 0) or, for break and continue, in a function body
\*   called from the top level (a = 1):  fn f() { W{ break } }; f()
StrayStatement(op) ==
    IF op = "return" THEN ReturnStatement(Num(5))
    ELSE IF op = "bare" THEN ReturnStatement(NoNode)
    ELSE IF op = "break" THEN BreakStatement
    ELSE ContinueStatement

StrayProgram(p) ==
    IF p.a = 0 THEN Wrap(p.w, <<StrayStatement(p.op)>>)
    ELSE <<FunctionStatement("f", <<>>, Wrap(p.w, <<StrayStatement(p.op)>>)),
           Do(Call("f", <<>>))>>

\* "loops": w = <<outer, inner>>, N = p.b iterations each, op at j == p.a
\*   let n = 0; let m = 0
\*   for i in [1..N] { INNER; m = m + 1 }
\*   let i = 0; while i < N { i = i + 1; INNER; m = m + 1 }
\* INNER:
\*   for j in [1..N] { if j == a { break }; n = n + 1 }
\*   let j = 0; while j < N { j = j + 1; if j == a { break }; n = n + 1 }
Loop(kind, var, n, stmts) ==
    IF kind = "for" THEN <<ForStatement(var, UpTo(n), stmts)>>
    ELSE <<Let(var, Num(0)),
           WhileStatement(BinaryOp("<", Id(var), Num(n)), <<Inc(var)>> \o stmts)>>

LoopsProgram(p) ==
    <<Let("n", Num(0)), Let("m", Num(0))>>
    \o Loop(p.w[1], "i", p.b,
            Loop(p.w[2], "j", p.b,
                 <<If(BinaryOp("==", Id("j"), Num(p.a)),
                      <<IF p.op = "break" THEN BreakStatement ELSE ContinueStatement>>),
                   Inc("n")>>)
            \o <<Inc("m")>>)

\* "closure"
\*  independent: let mk = fn(x) { fn(y) { x + y } }
\*               let f = mk(a); let g = mk(b); [f(1), g(1)]
\*  caller:      fn g() { y }; fn f() { let y = a; g() }; f()
\*  lexical:     let y = a; fn g() { y }; fn f() { let y = b; g() }; f()
ClosureProgram(p) ==
    IF p.op = "independent"
    THEN <<Let("mk", FunctionLiteral(<<"x">>,
                  <<Do(FunctionLiteral(<<"y">>, <<Do(BinaryOp("+", Id("x"), Id("y")))>>))>>)),
           Let("f", Call("mk", <<Num(p.a)>>)),
           Let("g", Call("mk", <<Num(p.b)>>)),
           Do(ArrayLiteral(<<Call("f", <<Num(1)>>), Call("g", <<Num(1)>>)>>))>>
    ELSE (IF p.op = "lexical" THEN <<Let("y", Num(p.a))>> ELSE <<>>)
         \o <<FunctionStatement("g", <<>>, <<Do(Id("y"))>>),
              FunctionStatement("f", <<>>,
                  <<Let("y", Num(IF p.op = "lexical" THEN p.b ELSE p.a)),
                    Do(Call("g", <<>>))>>),
              Do(Call("f", <<>>))>>

\* "counter", k = p.a calls
\*  counter: let make = fn() { let n = 0; fn() { n = n + 1; n } }
\*           let c = make(); let d = make(); let r = [c(), .., c()]; let o = d()
\*  shared:  let make = fn() { let n = 0; [fn() { n = n + 1; n }, fn() { n }] }
\*           let p = make(); let q = make(); p[0](); ..; p[0]()
\*           let r = p[1](); let o = q[1]()
Bump == FunctionLiteral(<<>>, <<Inc("n"), Do(Id("n"))>>)
At(name, i) == IndexExpression(Id(name), Num(i))

CounterProgram(p) ==
    IF p.op = "counter"
    THEN <<Let("make", FunctionLiteral(<<>>, <<Let("n", Num(0)), Do(Bump)>>)),
           Let("c", Call("make", <<>>)),
           Let("d", Call("make", <<>>)),
           Let("r", ArrayLiteral([i \in 1..p.a |-> Call("c", <<>>)])),
           Let("o", Call("d", <<>>))>>
    ELSE <<Let("make", FunctionLiteral(<<>>,
                  <<Let("n", Num(0)),
                    Do(ArrayLiteral(<<Bump, FunctionLiteral(<<>>, <<Do(Id("n"))>>)>>))>>)),
           Let("p", Call("make", <<>>)),
           Let("q", Call("make", <<>>))>>
         \o [i \in 1..p.a |-> Do(CallExpression(At("p", 0), <<>>))]
         \o <<Let("r", CallExpression(At("p", 1), <<>>)),
              Let("o", CallExpression(At("q", 1), <<>>))>>

\* "scope": levels 0..D of nested function calls, D = Len(p.w) - 1; level l
\* declares the name as p.w[l + 1] says; the innermost level executes p.op
\*  level l < D:  [let|const name = l + 1];  fn h() { <level l + 1> }
\*                let r = h(); let o = name; r
\*  level D:      [let|const name = D + 1];  <op>;  name
\*  <op>:  name = 99 | name += 1 | name -= 1 | let name = 99 | const name = 99
\*         | (nothing, for "read")
\* p.a chooses the name (x, or the name of the built-in len); with p.b = 1
\* the declared value is null
ScopeName(p) == IF p.a = 0 THEN "x" ELSE "len"

ScopeDecl(p, l) ==
    LET e == IF p.b = 1 THEN NullLiteral ELSE Num(l + 1) IN
    IF p.w[l + 1] = "let" THEN <<Let(ScopeName(p), e)>>
    ELSE IF p.w[l + 1] = "const" THEN <<ConstStatement(ScopeName(p), e)>>
    ELSE <<>>

ScopeOp(p) ==
    IF p.op = "=" THEN <<Set(ScopeName(p), Num(99))>>
    ELSE IF p.op \in {"+=", "-="} THEN <<AssignStatement(ScopeName(p), p.op, Num(1))>>
    ELSE IF p.op = "let" THEN <<Let(ScopeName(p), Num(99))>>
    ELSE IF p.op = "const" THEN <<ConstStatement(ScopeName(p), Num(99))>>
    ELSE <<>>

RECURSIVE ScopeLevel(_, _)
ScopeLevel(p, l) ==
    ScopeDecl(p, l)
    \o (IF l + 1 = Len(p.w)
        THEN ScopeOp(p) \o <<Do(Id(ScopeName(p)))>>
        ELSE <<FunctionStatement("h", <<>>, ScopeLevel(p, l + 1)),
               Let("r", Call("h", <<>>)),
               Let("o", Id(ScopeName(p))),
               Do(Id("r"))>>)

ScopeProgram(p) == ScopeLevel(p, 0)

\* "logic":  let na = 0; let nb = 0; let av = <operand p.a>
\*           fn a() { na = na + 1; av }
\*           fn b() { nb = nb + 1; 7 }
\*           let r = a() and b()       (p.op; with p.b = 1:  a() and zz)
\* the left operands, each with the truthiness expected of it
Operands ==
    <<[e |-> NullLiteral, truthy |-> FALSE],
      [e |-> BooleanLiteral(FALSE), truthy |-> FALSE],
      [e |-> BooleanLiteral(TRUE), truthy |-> TRUE],
      [e |-> Num(0), truthy |-> FALSE],
      [e |-> Num(3), truthy |-> TRUE],
      [e |-> StringLiteral(<<>>), truthy |-> FALSE],
      [e |-> StringLiteral(<<"a">>), truthy |-> TRUE],
      [e |-> ArrayLiteral(<<>>), truthy |-> FALSE],
      [e |-> ArrayLiteral(<<Num(0)>>), truthy |-> TRUE],
      [e |-> FunctionLiteral(<<>>, <<>>), truthy |-> TRUE],
      [e |-> Id("len"), truthy |-> TRUE]>>

LogicProgram(p) ==
    <<Let("na", Num(0)), Let("nb", Num(0)), Let("av", Operands[p.a].e),
      FunctionStatement("a", <<>>, <<Inc("na"), Do(Id("av"))>>),
      FunctionStatement("b", <<>>, <<Inc("nb"), Do(Num(7))>>),
      Let("r", BinaryOp(p.op, Call("a", <<>>),
                        IF p.b = 1 THEN Id("zz") ELSE Call("b", <<>>)))>>

\* "misc"
\*  builtin:     let a = [1]; push(a, 2); len(a)
\*  notcallable: let x = 5; x()
\*  unary:       let x = 3; [-x, not x]
MiscProgram(p) ==
    IF p.op = "builtin"
    THEN <<Let("a", UpTo(1)), Do(Call("push", <<Id("a"), Num(2)>>)),
           Do(Call("len", <<Id("a")>>))>>
    ELSE IF p.op = "notcallable" THEN <<Let("x", Num(5)), Do(Call("x", <<>>))>>
    ELSE <<Let("x", Num(3)),
           Do(ArrayLiteral(<<UnaryOp("-", Id("x")), UnaryOp("not", Id("x"))>>))>>

\* "order":  let log = []; fn t(k, v) { push(log, k); v }
\*  call:    fn g(x, y) { push(log, 9); x - y }
\*           let r = t(0, g)(t(1, 10), t(2, 3))
\*  binary:  let r = t(1, 10) - t(2, 3)
\*  index:   let a = [0, 0]; t(1, a)[t(2, 1)] = t(3, 7); let r = a[1]
Logged(k, e) == Call("t", <<Num(k), e>>)

OrderProgram(p) ==
    <<Let("log", ArrayLiteral(<<>>)),
      FunctionStatement("t", <<"k", "v">>,
          <<Do(Call("push", <<Id("log"), Id("k")>>)), Do(Id("v"))>>)>>
    \o (IF p.op = "call"
        THEN <<FunctionStatement("g", <<"x", "y">>,
                   <<Do(Call("push", <<Id("log"), Num(9)>>)),
                     Do(BinaryOp("-", Id("x"), Id("y")))>>),
               Let("r", CallExpression(Logged(0, Id("g")),
                                       <<Logged(1, Num(10)), Logged(2, Num(3))>>))>>
        ELSE IF p.op = "binary"
        THEN <<Let("r", BinaryOp("-", Logged(1, Num(10)), Logged(2, Num(3))))>>
        ELSE <<Let("a", ArrayLiteral(<<Num(0), Num(0)>>)),
               IndexAssignStatement(Logged(1, Id("a")), Logged(2, Num(1)),
                                    Logged(3, Num(7))),
               Let("r", At("a", 1))>>)

\* "arity":  let n = 0; fn f(<p.a parameters>) { n = n + 1; [<parameters>] }
\*           let r = f(<p.b arguments>)
ArityProgram(p) ==
    LET params == SubSeq(<<"x", "y", "z">>, 1, p.a)
        args == SubSeq(<<Num(10), Num(20), Num(30)>>, 1, p.b)
    IN <<Let("n", Num(0)),
         FunctionStatement("f", params,
             <<Inc("n"), Do(ArrayLiteral([i \in 1..p.a |-> Id(params[i])]))>>),
         Let("r", Call("f", args))>>

\* "index":  let r = <object p.op>[<index p.a>]
\* the objects:  [10, 20]   "ab"   {"a": 1}   5   null
\* the indices:  -1  0  1  2  true  false  2 / 2 (the float 1.0)  "a"  null
IndexObject(op) ==
    IF op = "array" THEN ArrayLiteral(<<Num(10), Num(20)>>)
    ELSE IF op = "string" THEN StringLiteral(<<"a", "b">>)
    ELSE IF op = "dict" THEN DictLiteral(<<[key |-> StringLiteral(<<"a">>), value |-> Num(1)]>>)
    ELSE IF op = "int" THEN Num(5)
    ELSE NullLiteral

Indices ==
    <<[e |-> UnaryOp("-", Num(1)), kind |-> "int", i |-> -1],
      [e |-> Num(0), kind |-> "int", i |-> 0],
      [e |-> Num(1), kind |-> "int", i |-> 1],
      [e |-> Num(2), kind |-> "int", i |-> 2],
      [e |-> BooleanLiteral(TRUE), kind |-> "bool", i |-> 1],
      [e |-> BooleanLiteral(FALSE), kind |-> "bool", i |-> 0],
      [e |-> BinaryOp("/", Num(2), Num(2)), kind |-> "float", i |-> 1],
      [e |-> StringLiteral(<<"a">>), kind |-> "str", i |-> 0],
      [e |-> NullLiteral, kind |-> "null", i |-> 0]>>

IndexProgram(p) == <<Let("r", IndexExpression(IndexObject(p.op), Indices[p.a].e))>>

\* "store"
\*  array:  let x = [1, 2, 3]; x[<p.a - 1>] = 99; let r = x[<p.a - 1>]
\*  dict:   let x = {"a": 1, "b": 2}; x[<key p.a>] = 99; let r = x[<key p.a>]
\*          with the keys "a", "b", "c"
StoreKeys == <<"a", "b", "c">>
Pair(k, e) == [key |-> StringLiteral(<<k>>), value |-> e]

StoreProgram(p) ==
    LET target == IF p.op = "array"
                  THEN IF p.a = 0 THEN UnaryOp("-", Num(1)) ELSE Num(p.a - 1)
                  ELSE StringLiteral(<<StoreKeys[p.a]>>)
    IN <<IF p.op = "array" THEN Let("x", UpTo(3))
         ELSE Let("x", DictLiteral(<<Pair("a", Num(1)), Pair("b", Num(2))>>)),
         IndexAssignStatement(Id("x"), target, Num(99)),
         Let("r", IndexExpression(Id("x"), target))>>

\* "keys":  let d = {<p.w[1]>: 1, <p.w[2]>: 2, ..}
\*          d[<key p.a>] = 8; d[<key p.b>] = 9; let r = keys(d)
KeysProgram(p) ==
    <<Let("d", DictLiteral([i \in 1..Len(p.w) |-> Pair(p.w[i], Num(i))])),
      IndexAssignStatement(Id("d"), StringLiteral(<<StoreKeys[p.a]>>), Num(8)),
      IndexAssignStatement(Id("d"), StringLiteral(<<StoreKeys[p.b]>>), Num(9)),
      Let("r", Call("keys", <<Id("d")>>))>>

\* "failure": one program for each kind of failure of an evaluation
\*  type:      1 - "a"
\*  arity:     fn f(x) { x }; f()
\*  undefined: y
\*  assign:    y = 1
\*  const:     const k = 1; k = 2
\*  div, mod:  1 / 0, 1 % 0
\*  bounds:    [1][5]
\*  key:       {"a": 1}["b"]
\*  iterate:   for i in 5 { }
\*  call:      let x = 5; x()
\*  return, break, continue: the statement alone
Failures ==
    <<"type", "arity", "undefined", "assign", "const", "div", "mod", "bounds", "key",
      "iterate", "call", "return", "break", "continue">>

FailureProgram(p) ==
    CASE p.op = "type" -> <<Do(BinaryOp("-", Num(1), StringLiteral(<<"a">>)))>>
      [] p.op = "arity" ->
             <<FunctionStatement("f", <<"x">>, <<Do(Id("x"))>>), Do(Call("f", <<>>))>>
      [] p.op = "undefined" -> <<Do(Id("y"))>>
      [] p.op = "assign" -> <<Set("y", Num(1))>>
      [] p.op = "const" -> <<ConstStatement("k", Num(1)), Set("k", Num(2))>>
      [] p.op = "div" -> <<Do(BinaryOp("/", Num(1), Num(0)))>>
      [] p.op = "mod" -> <<Do(BinaryOp("%", Num(1), Num(0)))>>
      [] p.op = "bounds" -> <<Do(IndexExpression(ArrayLiteral(<<Num(1)>>), Num(5)))>>
      [] p.op = "key" ->
             <<Do(IndexExpression(DictLiteral(<<[key |-> StringLiteral(<<"a">>),
                                                 value |-> Num(1)]>>),
                                  StringLiteral(<<"b">>)))>>
      [] p.op = "iterate" -> <<ForStatement("i", Num(5), <<>>)>>
      [] p.op = "call" -> <<Let("x", Num(5)), Do(Call("x", <<>>))>>
      [] p.op = "return" -> <<ReturnStatement(Num(1))>>
      [] p.op = "break" -> <<BreakStatement>>
      [] p.op = "continue" -> <<ContinueStatement>>

\* "value": let x = 0; let a = [0]; let r = if true { S }, for S one of
\*  let:    let y = 5           const:  const y = 5
\*  assign: x = 5               plus:   x += 5
\*  index:  a[0] = 5            fn:     fn f() { }
\*  while:  while x < 1 { x = x + 1 }
\*  for:    for i in a { 7 }
\*  empty:  (nothing)           expr:   1; 2
\*  if:     if false { 1 }
Statements ==
    <<"let", "const", "assign", "plus", "index", "fn", "while", "for", "empty", "expr",
      "if">>

LastStatement(op) ==
    CASE op = "let" -> <<Let("y", Num(5))>>
      [] op = "const" -> <<ConstStatement("y", Num(5))>>
      [] op = "assign" -> <<Set("x", Num(5))>>
      [] op = "plus" -> <<AssignStatement("x", "+=", Num(5))>>
      [] op = "index" -> <<IndexAssignStatement(Id("a"), Num(0), Num(5))>>
      [] op = "fn" -> <<FunctionStatement("f", <<>>, <<>>)>>
      [] op = "while" -> <<WhileStatement(BinaryOp("<", Id("x"), Num(1)), <<Inc("x")>>)>>
      [] op = "for" -> <<ForStatement("i", Id("a"), <<Do(Num(7))>>)>>
      [] op = "empty" -> <<>>
      [] op = "expr" -> <<Do(Num(1)), Do(Num(2))>>
      [] op = "if" -> <<If(BooleanLiteral(FALSE), <<Do(Num(1))>>)>>

ValueProgram(p) ==
    <<Let("x", Num(0)), Let("a", ArrayLiteral(<<Num(0)>>)),
      Let("r", IfExpression(BooleanLiteral(TRUE), LastStatement(p.op), NoNode))>>

\* "compound": x += e or x -= e (op "compound") and x = x + e or x = x - e
\* (op "plain"); b = 1 for minus; the declaration of x and e are case a of
\*  1: let x = 1;    e = 2
\*  2: let x = "a";  e = 1
\*  3: let x = 1;    e = "a"
\*  4: let x = 1; fn f() { x = 10; 1 };  e = f()
\*  5: x undeclared; e = 1
\*  6: const x = 1;  e = 2
CompoundCases ==
    <<[decl |-> <<Let("x", Num(1))>>, e |-> Num(2)],
      [decl |-> <<Let("x", StringLiteral(<<"a">>))>>, e |-> Num(1)],
      [decl |-> <<Let("x", Num(1))>>, e |-> StringLiteral(<<"a">>)],
      [decl |-> <<Let("x", Num(1)),
                  FunctionStatement("f", <<>>, <<Set("x", Num(10)), Do(Num(1))>>)>>,
       e |-> Call("f", <<>>)],
      [decl |-> <<>>, e |-> Num(1)],
      [decl |-> <<ConstStatement("x", Num(1))>>, e |-> Num(2)]>>

CompoundProgram(p) ==
    LET case == CompoundCases[p.a]
        sign == IF p.b = 1 THEN "-" ELSE "+"
    IN  case.decl
        \o <<IF p.op = "compound" THEN AssignStatement("x", sign \o "=", case.e)
             ELSE Set("x", BinaryOp(sign, Id("x"), case.e))>>

\* "alias": an array with two names, and one built-in applied to it
\*   let a = [w]; let b = a; let r = push(b, 9) / pop(a) / sorted(a) / reversed(a)
AliasProgram(p) ==
    <<Let("a", ArrayLiteral([i \in 1..Len(p.w) |-> Num(p.w[i])])),
      Let("b", Id("a")),
      Let("r", IF p.op = "push" THEN Call("push", <<Id("b"), Num(9)>>)
               ELSE Call(p.op, <<Id("a")>>))>>

\* "iterate": a for loop over each kind of value
\*   let n = 0; let log = []
\*   fn it() { n = n + 1; X }
\*   for v in it() { push(log, v) }
\* with X an array of the integers w, a string or a dictionary of the letters
\* StoreKeys[w[i]], null, true, 3, 3 / 2, a function or a built-in
Iterable(p) ==
    CASE p.op = "array" -> ArrayLiteral([i \in 1..Len(p.w) |-> Num(p.w[i])])
      [] p.op = "string" -> StringLiteral([i \in 1..Len(p.w) |-> StoreKeys[p.w[i]]])
      [] p.op = "dict" -> DictLiteral([i \in 1..Len(p.w) |-> Pair(StoreKeys[p.w[i]], Num(i))])
      [] p.op = "null" -> NullLiteral
      [] p.op = "boolean" -> BooleanLiteral(TRUE)
      [] p.op = "integer" -> Num(3)
      [] p.op = "float" -> BinaryOp("/", Num(3), Num(2))
      [] p.op = "function" -> FunctionLiteral(<<>>, <<>>)
      [] p.op = "builtin" -> Id("len")

IterateProgram(p) ==
    <<Let("n", Num(0)), Let("log", ArrayLiteral(<<>>)),
      FunctionStatement("it", <<>>, <<Inc("n"), Do(Iterable(p))>>),
      ForStatement("v", Call("it", <<>>), <<Do(Call("push", <<Id("log"), Id("v")>>))>>)>>

\* "truthy": a value of each kind, as the operand of not and as a condition
\*   let v = X; let r = not v; let rr = not not v
\*   let t = if v { true } else { false }
\* `falsy` is what the specification says of X
Kinds ==
    <<[e |-> NullLiteral, falsy |-> TRUE],
      [e |-> BooleanLiteral(FALSE), falsy |-> TRUE],
      [e |-> BooleanLiteral(TRUE), falsy |-> FALSE],
      [e |-> Num(0), falsy |-> TRUE],
      [e |-> Num(3), falsy |-> FALSE],
      [e |-> UnaryOp("-", Num(1)), falsy |-> FALSE],
      [e |-> BinaryOp("/", Num(0), Num(2)), falsy |-> TRUE],
      [e |-> UnaryOp("-", BinaryOp("/", Num(0), Num(2))), falsy |-> TRUE],
      [e |-> BinaryOp("/", Num(1), Num(2)), falsy |-> FALSE],
      [e |-> StringLiteral(<<>>), falsy |-> TRUE],
      [e |-> StringLiteral(<<"0">>), falsy |-> FALSE],
      [e |-> ArrayLiteral(<<>>), falsy |-> TRUE],
      [e |-> ArrayLiteral(<<Num(0)>>), falsy |-> FALSE],
      [e |-> ArrayLiteral(<<ArrayLiteral(<<>>)>>), falsy |-> FALSE],
      [e |-> DictLiteral(<<>>), falsy |-> TRUE],
      [e |-> DictLiteral(<<Pair("a", Num(0))>>), falsy |-> FALSE],
      [e |-> FunctionLiteral(<<>>, <<>>), falsy |-> FALSE],
      [e |-> Id("len"), falsy |-> FALSE]>>

TruthyProgram(p) ==
    <<Let("v", Kinds[p.a].e),
      Let("r", UnaryOp("not", Id("v"))),
      Let("rr", UnaryOp("not", UnaryOp("not", Id("v")))),
      Let("t", IfExpression(Id("v"), <<Do(BooleanLiteral(TRUE))>>,
                            BlockStatement(<<Do(BooleanLiteral(FALSE))>>)))>>

\* "escape": a break or continue in the body of a function, outside every
\* loop of that function, called from a loop that runs p.b times
\*   let n = 0; let m = 0
\*   fn g() { W{ break } }
\*   for i in [1..N] { n = n + 1; g(); m = m + 1 }
\*   let i = 0; while i < N { i = i + 1; n = n + 1; g(); m = m + 1 }
EscapeProgram(p) ==
    <<Let("n", Num(0)), Let("m", Num(0)),
      FunctionStatement("g", <<>>, Wrap(p.w, <<StrayStatement(p.op)>>))>>
    \o Loop(IF p.a = 1 THEN "for" ELSE "while", "i", p.b,
            <<Inc("n"), Do(Call("g", <<>>)), Inc("m")>>)

\* "block": a let inside nested bodies W of if, while and for, at the root
\* or in a function, and the variable of a for loop over p.a items
\*   root:     let go = true; W{ go = false; let x = 5 }; let r = x
\*   call:     let go = true; fn f() { W{ go = false; let x = 5 }; x }
\*             let r = f()
\*   loopvar:  for i in [1..a] { }; let r = i
\*   callvar:  fn f() { for i in [1..a] { }; i }; let r = f()
\* with W of  if true { .. }  /  while go { .. }  /  for i in [1] { .. }
RECURSIVE Bodies(_, _)
Bodies(w, stmts) ==
    IF Len(w) = 0 THEN stmts
    ELSE LET inner == Bodies(Tail(w), stmts)
         IN  <<CASE Head(w) = "if" -> If(BooleanLiteral(TRUE), inner)
                 [] Head(w) = "while" -> WhileStatement(Id("go"), inner)
                 [] Head(w) = "for" -> ForStatement("i", UpTo(1), inner)>>

BlockProgram(p) ==
    LET body == Bodies(p.w, <<Set("go", BooleanLiteral(FALSE)), Let("x", Num(5))>>)
        loop == ForStatement("i", UpTo(p.a), <<>>)
    IN  CASE p.op = "root" ->
                <<Let("go", BooleanLiteral(TRUE))>> \o body \o <<Let("r", Id("x"))>>
          [] p.op = "call" ->
                <<Let("go", BooleanLiteral(TRUE)),
                  FunctionStatement("f", <<>>, body \o <<Do(Id("x"))>>),
                  Let("r", Call("f", <<>>))>>
          [] p.op = "loopvar" -> <<loop, Let("r", Id("i"))>>
          [] p.op = "callvar" ->
                <<FunctionStatement("f", <<>>, <<loop, Do(Id("i"))>>),
                  Let("r", Call("f", <<>>))>>

\* "live": a for loop whose body changes the array it iterates, through
\* another name, in its first p.b iterations
\*   let a = [1..p.a]; let b = a; let n = 0; let log = []
\*   for v in a { n = n + 1; push(log, v); if n <= p.b { push(b, 0) } }
\*   for v in a { n = n + 1; push(log, v); if n <= p.b { pop(b) } }
LiveProgram(p) ==
    <<Let("a", UpTo(p.a)), Let("b", Id("a")), Let("n", Num(0)),
      Let("log", ArrayLiteral(<<>>)),
      ForStatement("v", Id("a"),
          <<Inc("n"),
            Do(Call("push", <<Id("log"), Id("v")>>)),
            If(BinaryOp("<=", Id("n"), Num(p.b)),
               <<Do(IF p.op = "push" THEN Call("push", <<Id("b"), Num(0)>>)
                    ELSE Call("pop", <<Id("b")>>))>>)>>)>>

Source(p) ==
    IF p.id = "return" THEN ReturnProgram(p)
    ELSE IF p.id = "inner" THEN InnerProgram(p)
    ELSE IF p.id = "stray" THEN StrayProgram(p)
    ELSE IF p.id = "loops" THEN LoopsProgram(p)
    ELSE IF p.id = "closure" THEN ClosureProgram(p)
    ELSE IF p.id = "counter" THEN CounterProgram(p)
    ELSE IF p.id = "scope" THEN ScopeProgram(p)
    ELSE IF p.id = "logic" THEN LogicProgram(p)
    ELSE IF p.id = "order" THEN OrderProgram(p)
    ELSE IF p.id = "index" THEN IndexProgram(p)
    ELSE IF p.id = "store" THEN StoreProgram(p)
    ELSE IF p.id = "keys" THEN KeysProgram(p)
    ELSE IF p.id = "arity" THEN ArityProgram(p)
    ELSE IF p.id = "failure" THEN FailureProgram(p)
    ELSE IF p.id = "value" THEN ValueProgram(p)
    ELSE IF p.id = "compound" THEN CompoundProgram(p)
    ELSE IF p.id = "alias" THEN AliasProgram(p)
    ELSE IF p.id = "iterate" THEN IterateProgram(p)
    ELSE IF p.id = "truthy" THEN TruthyProgram(p)
    ELSE IF p.id = "escape" THEN EscapeProgram(p)
    ELSE IF p.id = "block" THEN BlockProgram(p)
    ELSE IF p.id = "live" THEN LiveProgram(p)
    ELSE MiscProgram(p)

Blocks == {"if", "while", "for"}
Loops == {"while", "for"}

Programs ==
    {Desc("return", w, op, 0, 0) : w \in NestsOver(Blocks, MaxNest), op \in {"value", "bare"}}
    \cup {Desc("inner", w, "", 0, 0) : w \in NestsOver(Blocks, MaxNest)}
    \cup {Desc("stray", w, op, 0, 0) :
              w \in NestsOver(Blocks, MaxNest), op \in {"return", "bare"}}
    \cup {Desc("stray", w, op, a, 0) :
              w \in NestsOver({"if"}, MaxNest), op \in {"break", "continue"}, a \in {0, 1}}
    \cup {Desc("loops", w, op, a, MaxCalls) :
              w \in [1..2 -> Loops], op \in {"break", "continue"}, a \in 1..MaxCalls}
    \cup {Desc("closure", <<>>, op, a, b) :
              op \in {"independent", "caller", "lexical"}, a \in {10, 20}, b \in {10, 20}}
    \cup {Desc("counter", <<>>, op, a, 0) : op \in {"counter", "shared"}, a \in 1..MaxCalls}
    \cup {Desc("scope", w, op, 0, 0) :
              w \in UNION {[1..k -> {"none", "let", "const"}] : k \in 1..(MaxNest + 1)},
              op \in {"=", "+=", "-=", "let", "const"}}
    \cup {Desc("scope", w, "read", a, b) :
              w \in UNION {[1..k -> {"none", "let", "const"}] : k \in 1..(MaxNest + 1)},
              a \in {0, 1}, b \in {0, 1}}
    \cup {Desc("logic", <<>>, op, a, b) :
              op \in {"and", "or"}, a \in 1..Len(Operands), b \in {0, 1}}
    \cup {Desc("misc", <<>>, op, 0, 0) : op \in {"builtin", "notcallable", "unary"}}
    \cup {Desc("order", <<>>, op, 0, 0) : op \in {"call", "binary", "index"}}
    \cup {Desc("store", <<>>, "array", a, 0) : a \in 0..4}
    \cup {Desc("store", <<>>, "dict", a, 0) : a \in 1..Len(StoreKeys)}
    \cup {Desc("keys", w, "", a, b) :
              w \in UNION {[1..k -> {"a", "b", "c"}] : k \in 0..MaxPairs},
              a \in 1..Len(StoreKeys), b \in 1..Len(StoreKeys)}
    \cup {Desc("index", <<>>, op, a, 0) :
              op \in {"array", "string", "dict", "int", "null"}, a \in 1..Len(Indices)}
    \cup {Desc("arity", <<>>, "", a, b) : a \in 0..MaxArgs, b \in 0..MaxArgs}
    \cup {Desc("failure", <<>>, Failures[a], 0, 0) : a \in 1..Len(Failures)}
    \cup {Desc("value", <<>>, Statements[a], 0, 0) : a \in 1..Len(Statements)}
    \cup {Desc("compound", <<>>, op, a, b) :
              op \in {"compound", "plain"}, a \in 1..Len(CompoundCases), b \in {0, 1}}
    \cup {Desc("alias", w, op, 0, 0) :
              w \in UNION {[1..k -> 1..3] : k \in 0..MaxItems},
              op \in {"push", "pop", "sorted", "reversed"}}
    \cup {Desc("iterate", w, op, 0, 0) :
              w \in UNION {[1..k -> 1..3] : k \in 0..MaxItems},
              op \in {"array", "string", "dict"}}
    \cup {Desc("iterate", <<>>, op, 0, 0) :
              op \in {"null", "boolean", "integer", "float", "function", "builtin"}}
    \cup {Desc("truthy", <<>>, "", a, 0) : a \in 1..Len(Kinds)}
    \cup {Desc("escape", w, op, a, b) :
              w \in NestsOver({"if"}, MaxNest), op \in {"break", "continue"},
              a \in {1, 2}, b \in 1..MaxCalls}
    \cup {Desc("block", w, op, 0, 0) :
              w \in NestsOver(Blocks, MaxNest) \ {<<>>}, op \in {"root", "call"}}
    \cup {Desc("block", <<>>, op, a, 0) : op \in {"loopvar", "callvar"}, a \in 0..MaxItems}
    \cup {Desc("live", <<>>, op, a, b) :
              op \in {"push", "pop"}, a \in 1..(MaxItems + 1), b \in 0..MaxItems}

(***************************************************************************)
(* Front end: tokens (src/src/tokens.py).  A token is its type, its        *)
(* literal and its value; line and column are left out.  `front` holds the *)
(* front end's state: the input of the lexer or of the parser and what     *)
(* they have produced so far.                                              *)
(***************************************************************************)
Token(type, literal, value) == [type |-> type, literal |-> literal, value |-> value]

\* the front end of a program that is being evaluated has done its work
Parsed == [phase |-> "evaluate"]

(***************************************************************************)
(* Lexer (src/src/lexer.py).  A source is a sequence of characters, each a *)
(* string of its own; None, the current character past the end, is the     *)
(* empty string.  The lexer's state is the source and `pos`; line and      *)
(* column are left out.  A scanning method is an operator from them to its *)
(* chars: the token and the new `pos`, or the exception it raises.        *)
(***************************************************************************)
None == ""

\* U+00B2 SUPERSCRIPT TWO, one character: a digit for str.isdigit, which
\* int() and float() do not accept
SuperscriptTwo == "^2"

Decimals == <<"0", "1", "2", "3", "4", "5", "6", "7", "8", "9">>

isdecimal(char) == \E i \in 1..Len(Decimals) : Decimals[i] = char

\* str.isdigit: the decimal digits and the other characters with the
\* Unicode property Digit
isdigit(char) == isdecimal(char) \/ char = SuperscriptTwo

\* str.isalpha, on the letters of the keywords and of the sources
isalpha(char) ==
    char \in {"a", "b", "c", "d", "e", "f", "h", "i", "k", "l", "n", "o", "r", "s", "t",
              "u", "w", "x", "y", "z"}

isalnum(char) == isalpha(char) \/ isdigit(char)

KEYWORDS ==
    [let |-> "LET", const |-> "CONST", fn |-> "FN", return |-> "RETURN", if |-> "IF",
     else |-> "ELSE", while |-> "WHILE", for |-> "FOR", in |-> "IN", break |-> "BREAK",
     continue |-> "CONTINUE", true |-> "TRUE", false |-> "FALSE", null |-> "NULL",
     and |-> "AND", or |-> "OR", not |-> "NOT"]

lookup_identifier(ident) ==
    IF ident \in DOMAIN KEYWORDS THEN KEYWORDS[ident] ELSE "IDENTIFIER"

current_char(source, pos) == IF pos >= Len(source) THEN None ELSE source[pos + 1]

peek(source, pos) == current_char(source, pos + 1)

\* results of a scanning method
Scanned(token, pos) == [err |-> "none", token |-> token, pos |-> pos]
LexerError(message, pos) ==
    [err |-> "LexerError", token |-> Token("ILLEGAL", message, 0), pos |-> pos]
\* the host's ValueError, raised by int() and float()
ValueError(pos) ==
    [err |-> "ValueError", token |-> Token("ILLEGAL", "invalid literal", 0), pos |-> pos]

RECURSIVE skip_whitespace(_, _)
skip_whitespace(source, pos) ==
    IF current_char(source, pos) \in {" ", "\t", "\r"} THEN skip_whitespace(source, pos + 1)
    ELSE pos

RECURSIVE skip_comment(_, _)
skip_comment(source, pos) ==
    IF current_char(source, pos) # None /\ current_char(source, pos) # "\n"
    THEN skip_comment(source, pos + 1)
    ELSE pos

RECURSIVE join(_)
\* ''.join(result)
join(chars) == IF chars = <<>> THEN "" ELSE Head(chars) \o join(Tail(chars))

\* the characters an escape sequence of a string literal stands for
Escape(escape_char, quote_char) ==
    CASE escape_char = "n" -> <<"\n">>
      [] escape_char = "t" -> <<"\t">>
      [] escape_char = "r" -> <<"\r">>
      [] escape_char = "\\" -> <<"\\">>
      [] escape_char = quote_char -> <<quote_char>>
      [] escape_char = None -> <<"\\">>
      [] OTHER -> <<"\\", escape_char>>

RECURSIVE read_string_loop(_, _, _, _)
\* the loop of read_string and what follows it; pos is past the opening quote
read_string_loop(source, pos, quote_char, chars) ==
    LET char == current_char(source, pos)
    IN  IF char # None /\ char # quote_char
        THEN IF char = "\\"
             THEN read_string_loop(source, pos + 2, quote_char,
                                   chars \o Escape(current_char(source, pos + 1),
                                                    quote_char))
             ELSE IF char = "\n" THEN LexerError("Unterminated string literal", pos)
             ELSE read_string_loop(source, pos + 1, quote_char, Append(chars, char))
        ELSE IF char # quote_char THEN LexerError("Unterminated string literal", pos)
        ELSE Scanned(Token("STRING", join(chars), join(chars)), pos + 1)

read_string(source, pos, quote_char) == read_string_loop(source, pos + 1, quote_char, <<>>)

RECURSIVE read_number_loop(_, _, _, _)
\* the loop of read_number: the characters read, whether a dot is among
\* them, and the position after them
read_number_loop(source, pos, chars, has_dot) ==
    LET char == current_char(source, pos)
        stop == [chars |-> chars, has_dot |-> has_dot, pos |-> pos]
    IN  IF char # None /\ (isdigit(char) \/ char = ".")
        THEN IF char = "."
             THEN IF has_dot THEN stop
                  ELSE IF ~(peek(source, pos) # None /\ isdigit(peek(source, pos)))
                  THEN stop
                  ELSE read_number_loop(source, pos + 1, Append(chars, char), TRUE)
             ELSE read_number_loop(source, pos + 1, Append(chars, char), has_dot)
        ELSE stop

RECURSIVE int(_)
\* int(literal) on a sequence of decimal digits
int(digits) ==
    IF digits = <<>> THEN 0
    ELSE 10 * int(SubSeq(digits, 1, Len(digits) - 1))
         + (CHOOSE i \in 0..9 : Decimals[i + 1] = digits[Len(digits)])

\* float(literal) on decimal digits around one dot, as numerator and
\* denominator
float(literal) ==
    LET dot == CHOOSE i \in 1..Len(literal) : literal[i] = "."
        digits == SubSeq(literal, 1, dot - 1) \o SubSeq(literal, dot + 1, Len(literal))
    IN  [n |-> int(digits), d |-> 10 ^ (Len(literal) - dot)]

read_number(source, pos) ==
    LET read == read_number_loop(source, pos, <<>>, FALSE)
    IN  IF \E i \in 1..Len(read.chars) :
               ~isdecimal(read.chars[i]) /\ read.chars[i] # "."
        THEN ValueError(read.pos)
        ELSE IF read.has_dot
        THEN Scanned(Token("FLOAT", join(read.chars), float(read.chars)), read.pos)
        ELSE Scanned(Token("INTEGER", join(read.chars), int(read.chars)), read.pos)

RECURSIVE read_identifier_loop(_, _, _)
read_identifier_loop(source, pos, chars) ==
    LET char == current_char(source, pos)
    IN  IF char # None /\ (isalnum(char) \/ char = "_")
        THEN read_identifier_loop(source, pos + 1, Append(chars, char))
        ELSE [chars |-> chars, pos |-> pos]

\* value: 1 and 0 are the True and False of the tokens true and false
read_identifier(source, pos) ==
    LET read == read_identifier_loop(source, pos, <<>>)
        literal == join(read.chars)
        token_type == lookup_identifier(literal)
    IN  Scanned(Token(token_type, literal, IF token_type = "TRUE" THEN 1 ELSE 0), read.pos)

\* the operators of two characters, by their first character
two_char_tokens ==
    <<[char |-> "=", peek |-> "=", type |-> "EQ"],
      [char |-> "!", peek |-> "=", type |-> "NOT_EQ"],
      [char |-> "<", peek |-> "=", type |-> "LT_EQ"],
      [char |-> ">", peek |-> "=", type |-> "GT_EQ"],
      [char |-> "*", peek |-> "*", type |-> "POWER"],
      [char |-> "+", peek |-> "=", type |-> "PLUS_ASSIGN"],
      [char |-> "-", peek |-> "=", type |-> "MINUS_ASSIGN"],
      [char |-> "-", peek |-> ">", type |-> "ARROW"]>>

single_char_tokens ==
    [c \in {"+", "-", "*", "/", "%", "=", "<", ">", "(", ")", "{", "}", "[", "]", ",",
            ":", ";", "."} |->
        CASE c = "+" -> "PLUS" [] c = "-" -> "MINUS" [] c = "*" -> "ASTERISK"
          [] c = "/" -> "SLASH" [] c = "%" -> "PERCENT" [] c = "=" -> "ASSIGN"
          [] c = "<" -> "LT" [] c = ">" -> "GT" [] c = "(" -> "LPAREN"
          [] c = ")" -> "RPAREN" [] c = "{" -> "LBRACE" [] c = "}" -> "RBRACE"
          [] c = "[" -> "LBRACKET" [] c = "]" -> "RBRACKET" [] c = "," -> "COMMA"
          [] c = ":" -> "COLON" [] c = ";" -> "SEMICOLON" [] c = "." -> "DOT"]

RECURSIVE next_token(_, _)
next_token(source, pos) ==
    LET p == skip_whitespace(source, pos)
        char == current_char(source, p)
        two == {i \in 1..Len(two_char_tokens) :
                    /\ two_char_tokens[i].char = char
                    /\ two_char_tokens[i].peek = peek(source, p)}
    IN  IF char = None THEN Scanned(Token("EOF", "", 0), p)
        ELSE IF char = "#" THEN next_token(source, skip_comment(source, p))
        ELSE IF char = "\n" THEN Scanned(Token("NEWLINE", "\\n", 0), p + 1)
        ELSE IF char \in {"\"", "'"} THEN read_string(source, p, char)
        ELSE IF isdigit(char) THEN read_number(source, p)
        ELSE IF isalpha(char) \/ char = "_" THEN read_identifier(source, p)
        ELSE IF two # {}
        THEN LET t == two_char_tokens[CHOOSE i \in two : TRUE]
             IN  Scanned(Token(t.type, t.char \o t.peek, 0), p + 2)
        ELSE IF char \in DOMAIN single_char_tokens
        THEN Scanned(Token(single_char_tokens[char], char, 0), p + 1)
        ELSE LexerError("Unexpected character", p + 1)

(***************************************************************************)
(* Lexer.tokenize on a source: one action per turn of its loop.            *)
(* front = [phase, source, pos, tokens]; the phase is "tokenize" while the *)
(* loop runs, "tokens" when it has returned self.tokens, and the class of  *)
(* the exception when next_token raised.                                   *)
(***************************************************************************)
Lexer(source) == [phase |-> "tokenize", source |-> source, pos |-> 0, tokens |-> <<>>]

\* a token other than NEWLINE and EOF is appended
tokenize_append ==
    /\ front.phase = "tokenize"
    /\ LET token == next_token(front.source, front.pos)
       IN  /\ token.err = "none"
           /\ token.token.type \notin {"NEWLINE", "EOF"}
           /\ front' = [front EXCEPT !.pos = token.pos, !.tokens = Append(@, token.token)]
    /\ UNCHANGED <<ctrl, kont, envs, heap, funcs, status, result, prog>>

\* a NEWLINE token is dropped
tokenize_skip ==
    /\ front.phase = "tokenize"
    /\ LET token == next_token(front.source, front.pos)
       IN  /\ token.err = "none"
           /\ token.token.type = "NEWLINE"
           /\ front' = [front EXCEPT !.pos = token.pos]
    /\ UNCHANGED <<ctrl, kont, envs, heap, funcs, status, result, prog>>

\* the EOF token is appended and the list returned
tokenize_return ==
    /\ front.phase = "tokenize"
    /\ LET token == next_token(front.source, front.pos)
       IN  /\ token.err = "none"
           /\ token.token.type = "EOF"
           /\ front' = [front EXCEPT !.phase = "tokens", !.pos = token.pos,
                                     !.tokens = Append(@, token.token)]
    /\ UNCHANGED <<ctrl, kont, envs, heap, funcs, status, result, prog>>

\* next_token raises
tokenize_raise ==
    /\ front.phase = "tokenize"
    /\ LET token == next_token(front.source, front.pos)
       IN  /\ token.err # "none"
           /\ front' = [front EXCEPT !.phase = token.err, !.pos = token.pos]
    /\ UNCHANGED <<ctrl, kont, envs, heap, funcs, status, result, prog>>

\* the characters of the sources
Characters ==
    <<" ", "\n", "#", "'", "\\", "1", SuperscriptTwo, ".", "i", "n", "=", "*", "-", ">",
      "@">>

Sources ==
    {Desc("source", w, "", 0, 0) :
         w \in UNION {[1..k -> 1..Len(Characters)] : k \in 0..MaxLen}}

InitLexer ==
    /\ prog \in Sources
    /\ front = Lexer([i \in 1..Len(prog.w) |-> Characters[prog.w[i]]])
    /\ ctrl = Halt
    /\ kont = <<>>
    /\ envs = <<Environment(0)>>
    /\ heap = <<>>
    /\ funcs = <<>>
    /\ status = "lexing"
    /\ result = Null

NextLexer == tokenize_append \/ tokenize_skip \/ tokenize_return \/ tokenize_raise

SpecLexer == InitLexer /\ [][NextLexer]_vars

\* with tokenize running, its loop takes its next turn
FairLexer == SpecLexer /\ WF_vars(NextLexer)

(***************************************************************************)
(* Parser (src/src/parser.py).  The parser's state is the token list and   *)
(* `pos`; a parsing method is an operator from them to its result:         *)
(* the node it returns and the new `pos`, or the error it raises.          *)
(***************************************************************************)
Precedence ==
    [LOWEST |-> 0, OR |-> 1, AND |-> 2, NOT |-> 3, EQUALS |-> 4, COMPARE |-> 5,
     SUM |-> 6, PRODUCT |-> 7, POWER |-> 8, PREFIX |-> 9, CALL |-> 10, INDEX |-> 11]

\* PRECEDENCES.get(type, Precedence.LOWEST)
PRECEDENCES(type) ==
    CASE type = "OR" -> Precedence.OR
      [] type = "AND" -> Precedence.AND
      [] type \in {"EQ", "NOT_EQ"} -> Precedence.EQUALS
      [] type \in {"LT", "GT", "LT_EQ", "GT_EQ"} -> Precedence.COMPARE
      [] type \in {"PLUS", "MINUS"} -> Precedence.SUM
      [] type \in {"ASTERISK", "SLASH", "PERCENT"} -> Precedence.PRODUCT
      [] type = "POWER" -> Precedence.POWER
      [] type = "LPAREN" -> Precedence.CALL
      [] type = "LBRACKET" -> Precedence.INDEX
      [] OTHER -> Precedence.LOWEST

\* the token types with a registered prefix parser, of which the model
\* translates those of Modelled_prefix
prefix_parse_fns ==
    {"IDENTIFIER", "INTEGER", "FLOAT", "STRING", "TRUE", "FALSE", "NULL", "MINUS", "NOT",
     "LPAREN", "LBRACKET", "LBRACE", "IF", "FN"}

infix_parse_fns ==
    {"PLUS", "MINUS", "ASTERISK", "SLASH", "PERCENT", "POWER", "EQ", "NOT_EQ", "LT", "GT",
     "LT_EQ", "GT_EQ", "AND", "OR", "LPAREN", "LBRACKET"}

\* Parser.current_token: past the end it is the last token, EOF
current_token(tokens, pos) ==
    IF pos >= Len(tokens) THEN tokens[Len(tokens)] ELSE tokens[pos + 1]

\* Parser.peek_token
peek_token(tokens, pos) ==
    IF pos + 1 >= Len(tokens) THEN tokens[Len(tokens)] ELSE tokens[pos + 2]

current_precedence(tokens, pos) == PRECEDENCES(current_token(tokens, pos).type)

\* results of a parsing method
Node(node, pos) == [err |-> "none", node |-> node, pos |-> pos]
ParserError(message, pos) == [err |-> "ParserError", node |-> [k |-> message], pos |-> pos]

\* Parser.expect, as the result of the method that calls it and goes on
\* with `next`
expect(tokens, pos, token_type, next) ==
    IF current_token(tokens, pos).type # token_type
    THEN ParserError("Expected " \o token_type, pos)
    ELSE next

\* a call of one parsing method by another: a ParserError raised by the
\* callee leaves the caller as well, a returned result goes on to `next`
Then(r, next(_)) == IF r.err # "none" THEN r ELSE next(r)

RECURSIVE parse_expression(_, _, _)
RECURSIVE parse_expression_loop(_, _, _, _)
RECURSIVE parse_expression_list(_, _, _)
RECURSIVE parse_expression_list_loop(_, _, _, _)
RECURSIVE parse_statement(_, _)
RECURSIVE parse_block_statement_loop(_, _, _)
RECURSIVE parse_function_parameters_loop(_, _, _)
RECURSIVE parse_dict_or_block_loop(_, _, _)

\* A parse_identifier that leaves its token where it is.
parse_identifier_Stays(tokens, pos) ==
    Node(Identifier(current_token(tokens, pos).literal), pos)

parse_identifier(tokens, pos) == Node(Identifier(current_token(tokens, pos).literal), pos + 1)

parse_integer(tokens, pos) == Node(IntegerLiteral(current_token(tokens, pos).value), pos + 1)

parse_boolean(tokens, pos) ==
    Node(BooleanLiteral(current_token(tokens, pos).type = "TRUE"), pos + 1)

parse_null(tokens, pos) == Node(NullLiteral, pos + 1)

parse_prefix_expression(tokens, pos) ==
    Then(parse_expression(tokens, pos + 1, Precedence.PREFIX),
         LAMBDA operand :
             Node(UnaryOp(current_token(tokens, pos).literal, operand.node), operand.pos))

parse_grouped_expression(tokens, pos) ==
    Then(parse_expression(tokens, pos + 1, Precedence.LOWEST),
         LAMBDA expr : expect(tokens, expr.pos, "RPAREN", Node(expr.node, expr.pos + 1)))

parse_array_literal(tokens, pos) ==
    Then(parse_expression_list(tokens, pos + 1, "RBRACKET"),
         LAMBDA elements : Node(ArrayLiteral(elements.node), elements.pos))

\* the binary operators that group to the left only
parse_infix_expression_LeftOnly(tokens, left, pos) ==
    LET token == current_token(tokens, pos)
    IN  Then(parse_expression(tokens, pos + 1, PRECEDENCES(token.type)),
             LAMBDA right : Node(BinaryOp(token.literal, left, right.node), right.pos))

parse_infix_expression(tokens, left, pos) ==
    LET token == current_token(tokens, pos)
        precedence == IF token.type = "POWER" THEN PRECEDENCES(token.type) - 1
                      ELSE PRECEDENCES(token.type)
    IN  Then(parse_expression(tokens, pos + 1, precedence),
             LAMBDA right : Node(BinaryOp(token.literal, left, right.node), right.pos))

parse_call_expression(tokens, function, pos) ==
    Then(parse_expression_list(tokens, pos + 1, "RPAREN"),
         LAMBDA args : Node(CallExpression(function, args.node), args.pos))

parse_index_expression(tokens, obj, pos) ==
    Then(parse_expression(tokens, pos + 1, Precedence.LOWEST),
         LAMBDA index : expect(tokens, index.pos, "RBRACKET",
                               Node(IndexExpression(obj, index.node), index.pos + 1)))

\* the loop of parse_expression_list after an element: `elements` parsed,
\* the current token is what follows the last of them
parse_expression_list_loop(tokens, elements, pos, end) ==
    IF current_token(tokens, pos).type = "COMMA"
    THEN IF current_token(tokens, pos + 1).type = end
         THEN expect(tokens, pos + 1, end, Node(elements, pos + 2))
         ELSE Then(parse_expression(tokens, pos + 1, Precedence.LOWEST),
                   LAMBDA e : parse_expression_list_loop(tokens, Append(elements, e.node),
                                                         e.pos, end))
    ELSE expect(tokens, pos, end, Node(elements, pos + 1))

parse_expression_list(tokens, pos, end) ==
    IF current_token(tokens, pos).type # end
    THEN Then(parse_expression(tokens, pos, Precedence.LOWEST),
              LAMBDA e : parse_expression_list_loop(tokens, <<e.node>>, e.pos, end))
    ELSE expect(tokens, pos, end, Node(<<>>, pos + 1))

parse_float(tokens, pos) == Node(FloatLiteral(current_token(tokens, pos).value), pos + 1)

parse_string(tokens, pos) == Node(StringLiteral(current_token(tokens, pos).value), pos + 1)

\* the while loop of parse_dict_or_block, `pairs` parsed so far
parse_dict_or_block_loop(tokens, pairs, pos) ==
    IF current_token(tokens, pos).type = "COMMA"
    THEN IF current_token(tokens, pos + 1).type = "RBRACE"
         THEN Node(DictLiteral(pairs), pos + 2)
         ELSE Then(parse_expression(tokens, pos + 1, Precedence.LOWEST),
                   LAMBDA key :
                       expect(tokens, key.pos, "COLON",
                              Then(parse_expression(tokens, key.pos + 1, Precedence.LOWEST),
                                   LAMBDA value :
                                       parse_dict_or_block_loop(
                                           tokens,
                                           Append(pairs, [key |-> key.node,
                                                          value |-> value.node]),
                                           value.pos))))
    ELSE expect(tokens, pos, "RBRACE", Node(DictLiteral(pairs), pos + 1))

parse_dict_or_block(tokens, pos) ==
    IF current_token(tokens, pos + 1).type = "RBRACE"
    THEN Node(DictLiteral(<<>>), pos + 2)
    ELSE Then(parse_expression(tokens, pos + 1, Precedence.LOWEST),
              LAMBDA first_expr :
                  IF current_token(tokens, first_expr.pos).type = "COLON"
                  THEN Then(parse_expression(tokens, first_expr.pos + 1, Precedence.LOWEST),
                            LAMBDA first_value :
                                parse_dict_or_block_loop(
                                    tokens,
                                    <<[key |-> first_expr.node, value |-> first_value.node]>>,
                                    first_value.pos))
                  ELSE ParserError("Expected ':' in dictionary literal", first_expr.pos))

\* Parser.parse_function_parameters' while loop, `params` read so far
parse_function_parameters_loop(tokens, params, pos) ==
    IF current_token(tokens, pos).type = "COMMA"
    THEN expect(tokens, pos + 1, "IDENTIFIER",
                parse_function_parameters_loop(
                    tokens, Append(params, current_token(tokens, pos + 1).literal), pos + 2))
    ELSE expect(tokens, pos, "RPAREN", Node(params, pos + 1))

\* Parser.parse_function_parameters; the node is the list of names
parse_function_parameters(tokens, pos) ==
    expect(tokens, pos, "LPAREN",
           IF current_token(tokens, pos + 1).type # "RPAREN"
           THEN expect(tokens, pos + 1, "IDENTIFIER",
                       parse_function_parameters_loop(
                           tokens, <<current_token(tokens, pos + 1).literal>>, pos + 2))
           ELSE Node(<<>>, pos + 2))

\* the while loop of parse_block_statement, `statements` parsed so far
parse_block_statement_loop(tokens, statements, pos) ==
    IF current_token(tokens, pos).type \notin {"RBRACE", "EOF"}
    THEN Then(parse_statement(tokens, pos),
              LAMBDA stmt :
                  parse_block_statement_loop(
                      tokens,
                      IF stmt.node.k # "None" THEN Append(statements, stmt.node)
                      ELSE statements,
                      stmt.pos))
    ELSE expect(tokens, pos, "RBRACE", Node(BlockStatement(statements), pos + 1))

parse_block_statement(tokens, pos) ==
    expect(tokens, pos, "LBRACE", parse_block_statement_loop(tokens, <<>>, pos + 1))

parse_if_expression(tokens, pos) ==
    Then(parse_expression(tokens, pos + 1, Precedence.LOWEST),
         LAMBDA condition :
             Then(parse_block_statement(tokens, condition.pos),
                  LAMBDA consequence :
                      IF current_token(tokens, consequence.pos).type = "ELSE"
                      THEN Then(parse_block_statement(tokens, consequence.pos + 1),
                                LAMBDA alternative :
                                    Node(IfExpression(condition.node,
                                                      consequence.node.statements,
                                                      alternative.node),
                                         alternative.pos))
                      ELSE Node(IfExpression(condition.node, consequence.node.statements,
                                             NoNode),
                                consequence.pos)))

parse_function_literal(tokens, pos) ==
    Then(parse_function_parameters(tokens, pos + 1),
         LAMBDA params :
             Then(parse_block_statement(tokens, params.pos),
                  LAMBDA body :
                      Node(FunctionLiteral(params.node, body.node.statements), body.pos)))

\* prefix_fn(): the prefix parser registered for the current token
prefix_fn(tokens, pos) ==
    LET type == current_token(tokens, pos).type
    IN  CASE type = "IDENTIFIER" -> parse_identifier(tokens, pos)
          [] type = "INTEGER" -> parse_integer(tokens, pos)
          [] type \in {"TRUE", "FALSE"} -> parse_boolean(tokens, pos)
          [] type = "NULL" -> parse_null(tokens, pos)
          [] type \in {"MINUS", "NOT"} -> parse_prefix_expression(tokens, pos)
          [] type = "LPAREN" -> parse_grouped_expression(tokens, pos)
          [] type = "LBRACKET" -> parse_array_literal(tokens, pos)
          [] type = "IF" -> parse_if_expression(tokens, pos)
          [] type = "FN" -> parse_function_literal(tokens, pos)
          [] type = "FLOAT" -> parse_float(tokens, pos)
          [] type = "STRING" -> parse_string(tokens, pos)
          [] type = "LBRACE" -> parse_dict_or_block(tokens, pos)

\* infix_fn(left): the infix parser registered for the current token
infix_fn(tokens, left, pos) ==
    LET type == current_token(tokens, pos).type
    IN  CASE type = "LPAREN" -> parse_call_expression(tokens, left, pos)
          [] type = "LBRACKET" -> parse_index_expression(tokens, left, pos)
          [] OTHER -> parse_infix_expression(tokens, left, pos)

\* the while loop of parse_expression, `left` parsed so far
parse_expression_loop(tokens, left, pos, precedence) ==
    IF precedence < current_precedence(tokens, pos)
    THEN IF current_token(tokens, pos).type \notin infix_parse_fns
         THEN Node(left, pos)
         ELSE Then(infix_fn(tokens, left, pos),
                   LAMBDA l : parse_expression_loop(tokens, l.node, l.pos, precedence))
    ELSE Node(left, pos)

parse_expression(tokens, pos, precedence) ==
    IF current_token(tokens, pos).type \notin prefix_parse_fns
    THEN ParserError("No prefix parser", pos)
    ELSE Then(prefix_fn(tokens, pos),
              LAMBDA left : parse_expression_loop(tokens, left.node, left.pos, precedence))

\* Parser.parse_let_statement and parse_const_statement, which differ in
\* the node they build
parse_binding_statement(tokens, pos, const) ==
    expect(tokens, pos + 1, "IDENTIFIER",
           expect(tokens, pos + 2, "ASSIGN",
                  LET name == current_token(tokens, pos + 1).literal
                  IN  Then(parse_expression(tokens, pos + 3, Precedence.LOWEST),
                           LAMBDA value :
                               Node(IF const THEN ConstStatement(name, value.node)
                                    ELSE LetStatement(name, value.node),
                                    value.pos))))

parse_let_statement(tokens, pos) == parse_binding_statement(tokens, pos, FALSE)

parse_const_statement(tokens, pos) == parse_binding_statement(tokens, pos, TRUE)

parse_return_statement(tokens, pos) ==
    IF current_token(tokens, pos + 1).type \in {"RBRACE", "EOF", "SEMICOLON"}
    THEN Node(ReturnStatement(NoNode), pos + 1)
    ELSE Then(parse_expression(tokens, pos + 1, Precedence.LOWEST),
              LAMBDA value : Node(ReturnStatement(value.node), value.pos))

parse_while_statement(tokens, pos) ==
    Then(parse_expression(tokens, pos + 1, Precedence.LOWEST),
         LAMBDA condition :
             Then(parse_block_statement(tokens, condition.pos),
                  LAMBDA body :
                      Node(WhileStatement(condition.node, body.node.statements), body.pos)))

parse_for_statement(tokens, pos) ==
    expect(tokens, pos + 1, "IDENTIFIER",
           expect(tokens, pos + 2, "IN",
                  Then(parse_expression(tokens, pos + 3, Precedence.LOWEST),
                       LAMBDA iterable :
                           Then(parse_block_statement(tokens, iterable.pos),
                                LAMBDA body :
                                    Node(ForStatement(current_token(tokens, pos + 1).literal,
                                                      iterable.node, body.node.statements),
                                         body.pos)))))

parse_function_statement(tokens, pos) ==
    expect(tokens, pos + 1, "IDENTIFIER",
           Then(parse_function_parameters(tokens, pos + 2),
                LAMBDA params :
                    Then(parse_block_statement(tokens, params.pos),
                         LAMBDA body :
                             Node(FunctionStatement(current_token(tokens, pos + 1).literal,
                                                    params.node, body.node.statements),
                                  body.pos))))

\* A parser that would read a[i] += v as a[i] = a[i] + v.
parse_expression_or_assignment_statement_Compound(tokens, pos) ==
    Then(parse_expression(tokens, pos, Precedence.LOWEST),
         LAMBDA expr :
             IF current_token(tokens, expr.pos).type
                    \in {"ASSIGN", "PLUS_ASSIGN", "MINUS_ASSIGN"}
             THEN Then(parse_expression(tokens, expr.pos + 1, Precedence.LOWEST),
                       LAMBDA value :
                           LET op == current_token(tokens, expr.pos).literal
                           IN  IF expr.node.k = "Identifier"
                               THEN Node(AssignStatement(expr.node.name, op, value.node),
                                         value.pos)
                               ELSE IF expr.node.k = "IndexExpression"
                               THEN Node(IndexAssignStatement(
                                             expr.node.object, expr.node.index,
                                             IF op = "=" THEN value.node
                                             ELSE BinaryOp(IF op = "+=" THEN "+" ELSE "-",
                                                           expr.node, value.node)),
                                         value.pos)
                               ELSE ParserError("Invalid assignment target", value.pos))
             ELSE Node(ExpressionStatement(expr.node), expr.pos))

\* Parser.parse_expression_or_assignment_statement
parse_expression_or_assignment_statement(tokens, pos) ==
    Then(parse_expression(tokens, pos, Precedence.LOWEST),
         LAMBDA expr :
             IF current_token(tokens, expr.pos).type
                    \in {"ASSIGN", "PLUS_ASSIGN", "MINUS_ASSIGN"}
             THEN Then(parse_expression(tokens, expr.pos + 1, Precedence.LOWEST),
                       LAMBDA value :
                           LET op == current_token(tokens, expr.pos).literal
                           IN  IF expr.node.k = "Identifier"
                               THEN Node(AssignStatement(expr.node.name, op, value.node),
                                         value.pos)
                               ELSE IF expr.node.k = "IndexExpression"
                               THEN Node(IndexAssignStatement(expr.node.object,
                                                              expr.node.index, value.node),
                                         value.pos)
                               ELSE ParserError("Invalid assignment target", value.pos))
             ELSE Node(ExpressionStatement(expr.node), expr.pos))

RECURSIVE skip_semicolons(_, _)
\* the first loop of parse_statement
skip_semicolons(tokens, pos) ==
    IF current_token(tokens, pos).type = "SEMICOLON" THEN skip_semicolons(tokens, pos + 1)
    ELSE pos

\* Parser.parse_statement; a node of kind None is the method's None
parse_statement(tokens, pos) ==
    LET p == skip_semicolons(tokens, pos)
        tt == current_token(tokens, p).type
    IN  CASE tt = "EOF" -> Node(NoNode, p)
          [] tt = "LET" -> parse_let_statement(tokens, p)
          [] tt = "CONST" -> parse_const_statement(tokens, p)
          [] tt = "RETURN" -> parse_return_statement(tokens, p)
          [] tt = "WHILE" -> parse_while_statement(tokens, p)
          [] tt = "FOR" -> parse_for_statement(tokens, p)
          [] tt = "BREAK" -> Node(BreakStatement, p + 1)
          [] tt = "CONTINUE" -> Node(ContinueStatement, p + 1)
          [] tt = "FN" /\ peek_token(tokens, p).type = "IDENTIFIER" ->
                parse_function_statement(tokens, p)
          [] OTHER -> parse_expression_or_assignment_statement(tokens, p)

(***************************************************************************)
(* Parser.parse_program on a token list: one action per turn of its loop.  *)
(* front = [phase, tokens, pos, statements]; the phase is "parse" while    *)
(* the loop runs, "program" when it has returned ast.Program(statements)   *)
(* and "ParserError" when a statement raised.                              *)
(***************************************************************************)
Parser(tokens) == [phase |-> "parse", tokens |-> tokens, pos |-> 0, statements |-> <<>>]

parse_program_statement ==
    /\ front.phase = "parse"
    /\ current_token(front.tokens, front.pos).type # "EOF"
    /\ \E stmt \in {parse_statement(front.tokens, front.pos)} :
           /\ stmt.err = "none"
           /\ front' = [front EXCEPT !.pos = stmt.pos,
                                     !.statements = IF stmt.node.k = "None" THEN @
                                                    ELSE Append(@, stmt.node)]
    /\ UNCHANGED <<ctrl, kont, envs, heap, funcs, status, result, prog>>

parse_program_raise ==
    /\ front.phase = "parse"
    /\ current_token(front.tokens, front.pos).type # "EOF"
    /\ \E stmt \in {parse_statement(front.tokens, front.pos)} :
           /\ stmt.err # "none"
           /\ front' = [front EXCEPT !.phase = stmt.err, !.pos = stmt.pos]
    /\ UNCHANGED <<ctrl, kont, envs, heap, funcs, status, result, prog>>

parse_program_return ==
    /\ front.phase = "parse"
    /\ current_token(front.tokens, front.pos).type = "EOF"
    /\ front' = [front EXCEPT !.phase = "program"]
    /\ UNCHANGED <<ctrl, kont, envs, heap, funcs, status, result, prog>>

(***************************************************************************)
(* Evaluator.eval on an expression of literals and operators: no step of   *)
(* it reads the environment or the heap, so it is a function of the node.  *)
(***************************************************************************)
RECURSIVE eval_constant(_)
eval_constant(node) ==
    CASE node.k = "IntegerLiteral" -> Ok(<<>>, IntV(node.value))
      [] node.k = "BooleanLiteral" -> Ok(<<>>, BoolV(node.value))
      [] node.k = "NullLiteral" -> Ok(<<>>, Null)
      [] node.k = "UnaryOp" ->
             LET operand == eval_constant(node.operand)
             IN  IF operand.exc.cls # "none" THEN operand
                 ELSE ApplyUnaryOp(<<>>, node.operator, operand.val)
      [] node.k = "BinaryOp" ->
             LET left == eval_constant(node.left)
             IN  IF left.exc.cls # "none" THEN left
                 ELSE IF node.operator \in {"and", "or"}
                 THEN IF ShortCircuit(<<>>, node.operator, left.val) THEN left
                      ELSE eval_constant(node.right)
                 ELSE LET right == eval_constant(node.right)
                      IN  IF right.exc.cls # "none" THEN right
                          ELSE ApplyBinaryOp(<<>>, <<>>, node.operator, left.val, right.val)
      [] OTHER -> Unmodelled(<<>>)

(***************************************************************************)
(* Token lists the parser is run on.                                       *)
(***************************************************************************)
\* value: the integer of an INTEGER token, 0 for the others
IntegerToken(i) == Token("INTEGER", ToString(i), i)
Punctuation(type, literal) == Token(type, literal, 0)
EOF == Punctuation("EOF", "")

\* the binary operators, from the loosest level to the tightest
BinaryTokens ==
    <<Punctuation("OR", "or"), Punctuation("AND", "and"),
      Punctuation("EQ", "=="), Punctuation("NOT_EQ", "!="),
      Punctuation("LT", "<"), Punctuation("GT", ">"),
      Punctuation("LT_EQ", "<="), Punctuation("GT_EQ", ">="),
      Punctuation("PLUS", "+"), Punctuation("MINUS", "-"),
      Punctuation("ASTERISK", "*"), Punctuation("SLASH", "/"),
      Punctuation("PERCENT", "%"), Punctuation("POWER", "**")>>

\* what may stand before an operand: nothing, -, not, not -
Prefixes ==
    <<<<>>, <<Punctuation("MINUS", "-")>>, <<Punctuation("NOT", "not")>>,
      <<Punctuation("NOT", "not"), Punctuation("MINUS", "-")>>>>

\* what may stand after an operand: nothing, (), [0], ()[0], [0]()
Postfixes ==
    LET call == <<Punctuation("LPAREN", "("), Punctuation("RPAREN", ")")>>
        index == <<Punctuation("LBRACKET", "["), IntegerToken(0),
                   Punctuation("RBRACKET", "]")>>
    IN  <<<<>>, call, index, call \o index, index \o call>>

\* operand i of a chain, with prefix a and postfix b
Operand(i, a, b) == Prefixes[a] \o <<IntegerToken(i)>> \o Postfixes[b]

RECURSIVE Chain(_, _)
\* 1 w[1] 2 w[2] ... : the operators w between the integers 1, 2, ...
Chain(w, n) ==
    IF n = 0 THEN <<IntegerToken(1)>>
    ELSE Chain(w, n - 1) \o <<BinaryTokens[w[n]], IntegerToken(n + 1)>>

\* one operator between two operands; a and b number the pairs of a
\* prefix and a postfix
Decorated(w, a, b) ==
    LET pre(x) == ((x - 1) % Len(Prefixes)) + 1
        post(x) == ((x - 1) \div Len(Prefixes)) + 1
    IN  Operand(1, pre(a), post(a))
        \o (IF w = <<>> THEN <<>>
            ELSE <<BinaryTokens[w[1]]>> \o Operand(2, pre(b), post(b)))

\* the expressions the specification names, and their values
Examples ==
    <<[tokens |-> <<IntegerToken(1), BinaryTokens[9], IntegerToken(2), BinaryTokens[11],
                    IntegerToken(3), BinaryTokens[14], IntegerToken(2)>>,
       value |-> IntV(19)],
      [tokens |-> <<IntegerToken(2), BinaryTokens[14], IntegerToken(3), BinaryTokens[14],
                    IntegerToken(2)>>,
       value |-> IntV(512)],
      [tokens |-> <<IntegerToken(10), BinaryTokens[10], IntegerToken(3), BinaryTokens[10],
                    IntegerToken(2)>>,
       value |-> IntV(5)],
      [tokens |-> <<Punctuation("NOT", "not"), Token("TRUE", "true", 1),
                    BinaryTokens[1], Token("TRUE", "true", 1)>>,
       value |-> BoolV(TRUE)]>>

\* a chain whose last operand is missing, an unclosed ( and an unclosed [
Broken(w, a) ==
    IF a = 1 THEN SubSeq(Chain(w, Len(w)), 1, 2 * Len(w))
    ELSE IF a = 2 THEN <<Punctuation("LPAREN", "(")>> \o Chain(w, Len(w))
    ELSE <<IntegerToken(1), Punctuation("LBRACKET", "[")>> \o Chain(w, Len(w))

\* n semicolons
Semicolons(n) == [i \in 1..n |-> Punctuation("SEMICOLON", ";")]

IdentifierToken(name) == Token("IDENTIFIER", name, 0)

RECURSIVE Separated(_, _)
\* the statements 1, 2, ... n with w[i] semicolons before statement i and
\* w[n + 1] semicolons after the last one
Separated(w, n) ==
    IF n = 0 THEN Semicolons(w[1])
    ELSE Separated(w, n - 1) \o <<IntegerToken(n)>> \o Semicolons(w[n + 1])

\* the statements of Separated(w, n), whatever w is
Statements123(n) == [i \in 1..n |-> ExpressionStatement(IntegerLiteral(i))]

\* the places a statement list stands in: the top level and the body of a
\* function declaration, a function literal, an if, an else, a while, a for
Places == {"top", "fn", "literal", "if", "else", "while", "for"}

\* the token list of a statement list in a place
Placed(place, body) ==
    LET LB == <<Punctuation("LBRACE", "{")>>
        RB == <<Punctuation("RBRACE", "}")>>
        block == LB \o body \o RB
        true == Token("TRUE", "true", 1)
    IN  CASE place = "top" -> body
          [] place = "fn" ->
                <<Punctuation("FN", "fn"), IdentifierToken("f"), Punctuation("LPAREN", "("),
                  Punctuation("RPAREN", ")")>> \o block
          [] place = "literal" ->
                <<Punctuation("FN", "fn"), Punctuation("LPAREN", "("),
                  Punctuation("RPAREN", ")")>> \o block
          [] place = "if" -> <<Punctuation("IF", "if"), true>> \o block
          [] place = "else" ->
                <<Punctuation("IF", "if"), true>> \o LB \o RB
                \o <<Punctuation("ELSE", "else")>> \o block
          [] place = "while" -> <<Punctuation("WHILE", "while"), true>> \o block
          [] place = "for" ->
                <<Punctuation("FOR", "for"), IdentifierToken("i"), Punctuation("IN", "in"),
                  IdentifierToken("x")>> \o block

\* the program a statement list in a place is the source of
PlacedStatements(place, stmts) ==
    CASE place = "top" -> stmts
      [] place = "fn" -> <<FunctionStatement("f", <<>>, stmts)>>
      [] place = "literal" -> <<ExpressionStatement(FunctionLiteral(<<>>, stmts))>>
      [] place = "if" ->
            <<ExpressionStatement(IfExpression(BooleanLiteral(TRUE), stmts, NoNode))>>
      [] place = "else" ->
            <<ExpressionStatement(IfExpression(BooleanLiteral(TRUE), <<>>,
                                               BlockStatement(stmts)))>>
      [] place = "while" -> <<WhileStatement(BooleanLiteral(TRUE), stmts)>>
      [] place = "for" -> <<ForStatement("i", Identifier("x"), stmts)>>

\* the tokens of the lists that follow no grammar
Soup ==
    <<IntegerToken(1), IdentifierToken("x"), Punctuation("PLUS", "+"),
      Punctuation("LPAREN", "("), Punctuation("RPAREN", ")"),
      Punctuation("LBRACE", "{"), Punctuation("RBRACE", "}"),
      Punctuation("SEMICOLON", ";"), Punctuation("COMMA", ","),
      Punctuation("ASSIGN", "="), Punctuation("FN", "fn"), Punctuation("IF", "if")>>

\* the names a, b of the parameters w
Names(w) == [i \in 1..Len(w) |-> <<"a", "b">>[w[i]]]

RECURSIVE Listed(_, _)
\* the identifiers names[1..n] with a comma between two of them
Listed(names, n) ==
    IF n = 0 THEN <<>>
    ELSE IF n = 1 THEN <<IdentifierToken(names[1])>>
    ELSE Listed(names, n - 1) \o <<Punctuation("COMMA", ","), IdentifierToken(names[n])>>

\* fn f(<names>) { a }  and  fn(<names>) { a }
Signature(place, names) ==
    <<Punctuation("FN", "fn")>>
    \o (IF place = "fn" THEN <<IdentifierToken("f")>> ELSE <<>>)
    \o <<Punctuation("LPAREN", "(")>> \o Listed(names, Len(names))
    \o <<Punctuation("RPAREN", ")"), Punctuation("LBRACE", "{"), IdentifierToken("a"),
         Punctuation("RBRACE", "}")>>

\* a[<index>] <op> <value>, the index 0, 1 or "k"
AssignToken(op) ==
    CASE op = "=" -> Punctuation("ASSIGN", "=")
      [] op = "+=" -> Punctuation("PLUS_ASSIGN", "+=")
      [] op = "-=" -> Punctuation("MINUS_ASSIGN", "-=")

IndexTarget(op, index, value) ==
    <<IdentifierToken("a"), Punctuation("LBRACKET", "["),
      IF index = 2 THEN Token("STRING", "k", <<"k">>) ELSE IntegerToken(index),
      Punctuation("RBRACKET", "]"), AssignToken(op), IntegerToken(value)>>

\* statements of each kind, well formed and not:
\*   let x = 1 / const x = 1 / let = 1 / let x 1 / return / return 1 / return ;
\*   break / continue / {} / {x: 1} / {x: 1,} / {x: 1, 1: "k"} / {x} / {x: 1 1}
\*   1 = 1 / x += 1 / for x 1 / fn f / while 1 { } / -
Sentences ==
    LET x == IdentifierToken("x")
        one == IntegerToken(1)
        assign == Punctuation("ASSIGN", "=")
        LB == Punctuation("LBRACE", "{")
        RB == Punctuation("RBRACE", "}")
        colon == Punctuation("COLON", ":")
        comma == Punctuation("COMMA", ",")
        return == Punctuation("RETURN", "return")
    IN  <<<<Punctuation("LET", "let"), x, assign, one>>,
          <<Punctuation("CONST", "const"), x, assign, one>>,
          <<Punctuation("LET", "let"), assign, one>>,
          <<Punctuation("LET", "let"), x, one>>,
          <<return>>,
          <<return, one>>,
          <<return, Punctuation("SEMICOLON", ";")>>,
          <<Punctuation("BREAK", "break")>>,
          <<Punctuation("CONTINUE", "continue")>>,
          <<LB, RB>>,
          <<LB, x, colon, one, RB>>,
          <<LB, x, colon, one, comma, RB>>,
          <<LB, x, colon, one, comma, one, colon, Token("STRING", "k", <<"k">>), RB>>,
          <<LB, x, RB>>,
          <<LB, x, colon, one, one>>,
          <<one, assign, one>>,
          <<x, Punctuation("PLUS_ASSIGN", "+="), one>>,
          <<Punctuation("FOR", "for"), x, one>>,
          <<Punctuation("FN", "fn"), IdentifierToken("f")>>,
          <<Punctuation("WHILE", "while"), one, LB, RB>>,
          <<Punctuation("MINUS", "-")>>>>

Tokens(p) ==
    (IF p.id = "chain" THEN Chain(p.w, Len(p.w))
     ELSE IF p.id = "decorated" THEN Decorated(p.w, p.a, p.b)
     ELSE IF p.id = "example" THEN Examples[p.a].tokens
     ELSE IF p.id = "semicolons" THEN Placed(p.op, Separated(p.w, Len(p.w) - 1))
     ELSE IF p.id = "params" THEN Signature(p.op, Names(p.w))
     ELSE IF p.id = "indexassign" THEN IndexTarget(p.op, p.a, p.b)
     ELSE IF p.id = "sentence" THEN Sentences[p.a]
     ELSE IF p.id = "soup" THEN [i \in 1..Len(p.w) |-> Soup[p.w[i]]]
     ELSE Broken(p.w, p.a))
    \o <<EOF>>

\* p describes one of the token lists given to the parser
TokenLists(p) ==
    \/ \E k \in 0..MaxOps : \E w \in [1..k -> 1..Len(BinaryTokens)] :
           p = Desc("chain", w, "", 0, 0)
    \/ \E w \in {<<>>} \cup [1..1 -> 1..Len(BinaryTokens)] :
           \E a, b \in 1..(Len(Prefixes) * Len(Postfixes)) :
               p = Desc("decorated", w, "", a, b)
    \/ \E a \in 1..Len(Examples) : p = Desc("example", <<>>, "", a, 0)
    \/ \E w \in [1..1 -> 1..Len(BinaryTokens)] : \E a \in 1..3 :
           p = Desc("broken", w, "", a, 0)
    \/ \E n \in 0..MaxStmts : \E w \in [1..(n + 1) -> 0..MaxSemis] : \E place \in Places :
           p = Desc("semicolons", w, place, 0, 0)
    \/ \E k \in 0..MaxArgs : \E w \in [1..k -> 1..2] : \E place \in {"fn", "literal"} :
           p = Desc("params", w, place, 0, 0)
    \/ \E op \in {"=", "+=", "-="} : \E a \in 0..2 : \E b \in 1..MaxItems :
           p = Desc("indexassign", <<>>, op, a, b)
    \/ \E a \in 1..Len(Sentences) : p = Desc("sentence", <<>>, "", a, 0)
    \/ \E k \in 0..MaxTokens : \E w \in [1..k -> 1..Len(Soup)] :
           p = Desc("soup", w, "", 0, 0)

InitParser ==
    /\ TokenLists(prog)
    /\ front = Parser(Tokens(prog))
    /\ ctrl = Halt
    /\ kont = <<>>
    /\ envs = <<Environment(0)>>
    /\ heap = <<>>
    /\ funcs = <<>>
    /\ status = "parsing"
    /\ result = Null

NextParser == parse_program_statement \/ parse_program_raise \/ parse_program_return

SpecParser == InitParser /\ [][NextParser]_vars

(***************************************************************************)
(* run_source: evaluator.eval(program, Environment()) on a parsed program. *)
(***************************************************************************)
Init ==
    /\ prog \in Programs
    /\ ctrl = Eval(Program(Source(prog)), 1)
    /\ kont = <<>>
    /\ envs = <<Environment(0)>>
    /\ heap = <<>>
    /\ funcs = <<>>
    /\ status = "running"
    /\ result = Null
    /\ front = Parsed

Next ==
    \/ eval_Program \/ Program_next
    \/ eval_IndexAssignStatement \/ IndexAssignStatement_index
    \/ IndexAssignStatement_value \/ IndexAssignStatement_store
    \/ eval_DictLiteral \/ DictLiteral_key \/ DictLiteral_value
    \/ eval_BlockStatement \/ BlockStatement_next
    \/ eval_ExpressionStatement
    \/ eval_LetStatement \/ LetStatement_set
    \/ eval_ConstStatement \/ ConstStatement_set
    \/ eval_AssignStatement \/ AssignStatement_assign
    \/ eval_ReturnStatement \/ ReturnStatement_raise
    \/ eval_BreakStatement \/ eval_ContinueStatement
    \/ eval_WhileStatement \/ WhileStatement_test \/ WhileStatement_next
    \/ WhileStatement_break \/ WhileStatement_continue
    \/ eval_ForStatement \/ ForStatement_iter \/ ForStatement_next
    \/ ForStatement_break \/ ForStatement_continue
    \/ eval_FunctionStatement \/ eval_FunctionLiteral
    \/ eval_CallExpression \/ CallExpression_func \/ CallExpression_arg
    \/ apply_function_builtin \/ apply_function_user \/ apply_function_not_callable
    \/ apply_function_result \/ apply_function_return
    \/ eval_IntegerLiteral \/ eval_StringLiteral \/ eval_BooleanLiteral
    \/ eval_NullLiteral
    \/ eval_ArrayLiteral \/ ArrayLiteral_next
    \/ eval_Identifier
    \/ eval_IndexExpression \/ IndexExpression_index \/ IndexExpression_apply
    \/ eval_BinaryOp \/ BinaryOp_logical \/ BinaryOp_right \/ BinaryOp_apply
    \/ eval_UnaryOp \/ UnaryOp_apply
    \/ eval_IfExpression \/ IfExpression_branch
    \/ Propagate
    \/ run_source_ok \/ run_source_except

Spec == Init /\ [][Next]_vars

\* no reachable state leaves the modelled fragment of the host
Modelled == ctrl.exc.cls # "Unmodelled"

(***************************************************************************)
(* Notions the properties are stated with.                                 *)
(***************************************************************************)
Halted == ctrl.mode = "halt"

Unbound == [t |-> "unbound", n |-> 0, d |-> 1, s |-> <<>>]

\* the value of `name` in environment e itself (no chain)
Bound(e, name) ==
    IF e \in 1..Len(envs) /\ name \in DOMAIN envs[e].store
    THEN envs[e].store[name] ELSE Unbound

\* the value of a variable of the root environment
Global(name) == Bound(1, name)

\* the elements of the array value v
Elements(v) == IF v.t = "list" THEN Items(heap, v) ELSE <<Unbound>>

HasFrame(kinds) == \E i \in 1..Len(kont) : kont[i].f \in kinds

\* the kind of the innermost frame among `kinds`
Innermost(kinds) ==
    LET I == {i \in 1..Len(kont) : kont[i].f \in kinds}
    IN IF I = {} THEN "none" ELSE kont[CHOOSE i \in I : \A j \in I : i <= j].f

\* the environments of the chain of e, innermost first
RECURSIVE Scope(_, _)
Scope(es, e) == IF e = 0 THEN <<>> ELSE <<e>> \o Scope(es, es[e].parent)

\* the innermost environment of the chain of e that binds name; 0 if none
Binder(es, e, name) ==
    LET c == Scope(es, e)
        I == {i \in 1..Len(c) : name \in DOMAIN es[c[i]].store}
    IN IF I = {} THEN 0 ELSE c[CHOOSE i \in I : \A j \in I : i <= j]

(***************************************************************************)
(* C1  A return executed inside a user function, at any nesting depth of   *)
(* if / while / for blocks of the body, ends the innermost active call at  *)
(* once with the returned value (null for a bare return): the signal       *)
(* passes every frame of the body without any statement or iteration       *)
(* running, the call returns the value, and the caller goes on.            *)
(***************************************************************************)
C1_Unwinds ==
    (ctrl.mode = "raise" /\ ctrl.exc.cls = "ReturnValue" /\ HasFrame({"Call"}))
    => /\ kont' = Tail(kont)
       /\ ctrl' = IF Head(kont).f = "Call" THEN Ret(ctrl.exc.val) ELSE ctrl
       /\ UNCHANGED <<envs, heap, funcs, status, result>>

C1_Outcome ==
    /\ (Halted /\ prog.id = "return")
       => /\ status = "ok"
          /\ Global("r") = IF prog.op = "bare" THEN Null ELSE IntV(7)
          /\ Global("iters") = IntV(1)
          /\ Global("after") = IntV(0)
          /\ Global("cont") = IntV(1)
    /\ (Halted /\ prog.id = "inner")
       => /\ status = "ok"
          /\ Global("r") = IntV(2)
          /\ Global("n") = IntV(2)

C1_ReturnEndsCall == [](C1_Outcome) /\ [][C1_Unwinds]_vars

C1_Witness ==
    /\ Halted /\ prog.id = "return" /\ prog.w = <<"for", "while">>
    /\ Global("r") = IntV(7) /\ Global("after") = IntV(0)

(***************************************************************************)
(* C2  A return outside any function call, and a break or continue         *)
(* outside any loop, reaches the embedder as a runtime error.              *)
(***************************************************************************)
C2_StrayIsRuntimeError ==
    (Halted /\ prog.id = "stray")
    => status = "Runtime Error" /\ ctrl.exc.cls = "KiraRuntimeError"

(***************************************************************************)
(* C3  Within one function body, a break ends only the innermost loop (the *)
(* frames of the enclosing loops stay) and a continue starts the next      *)
(* iteration of the innermost loop: a while evaluates its condition again, *)
(* a for binds the next element or ends.                                   *)
(***************************************************************************)
LoopBodies == {"WhileBody", "ForBody"}

InLoop(cls) ==
    /\ ctrl.mode = "raise" /\ ctrl.exc.cls = cls
    /\ Innermost(LoopBodies \cup {"Call"}) \in LoopBodies

C3_Break ==
    InLoop("BreakSignal")
    => /\ kont' = Tail(kont)
       /\ ctrl' = IF Head(kont).f \in LoopBodies THEN Ret(Null) ELSE ctrl
       /\ UNCHANGED <<envs, heap, funcs, status, result>>

C3_Continue ==
    InLoop("ContinueSignal")
    => LET fr == Head(kont) IN
       /\ UNCHANGED <<heap, funcs, status, result>>
       /\ IF fr.f = "WhileBody"
          THEN /\ ctrl' = Eval(fr.node.condition, fr.env)
               /\ Len(kont') = Len(kont) /\ Tail(kont') = Tail(kont)
               /\ envs' = envs
          ELSE IF fr.f = "ForBody"
          THEN IF fr.i < IterLen(heap, fr.iterable)
               THEN \/ fr.node.variable \in envs[fr.env].constants
                    \/ /\ ctrl' = Eval(fr.node.body, fr.env)
                       /\ Bound(fr.env, fr.node.variable)' = IterItem(heap, fr.iterable, fr.i)
                       /\ Head(kont').f = "ForBody" /\ Head(kont').i = fr.i + 1
                       /\ Tail(kont') = Tail(kont)
               ELSE ctrl' = Ret(Null) /\ kont' = Tail(kont) /\ envs' = envs
          ELSE ctrl' = ctrl /\ kont' = Tail(kont) /\ envs' = envs

C3_Outcome ==
    (Halted /\ prog.id = "loops")
    => /\ status = "ok"
       /\ Global("m") = IntV(prog.b)
       /\ Global("n") = IntV(IF prog.op = "break" THEN prog.b * (prog.a - 1)
                                                  ELSE prog.b * (prog.b - 1))

C3_BreakContinueInnermost == [](C3_Outcome) /\ [][C3_Break /\ C3_Continue]_vars

C3_Witness ==
    /\ Halted /\ prog.id = "loops" /\ prog.w = <<"while", "for">> /\ prog.op = "break"
    /\ prog.a = 2 /\ Global("n") = IntV(prog.b) /\ Global("m") = IntV(prog.b)

(***************************************************************************)
(* C4  Every call of a user function runs the body in a fresh environment  *)
(* whose parent is the environment the function captured, with the         *)
(* parameters bound to the arguments; the environments that exist are left *)
(* as they are.  Closures of two calls of one maker keep their own         *)
(* parameter values, and a body cannot see a name only the caller binds.   *)
(***************************************************************************)
C4_FreshEnvironment ==
    (/\ ctrl.mode = "apply" /\ ctrl.val.t = "Function"
     /\ Len(ctrl.args) = Len(funcs[ctrl.val.n].parameters))
    => LET fn == funcs[ctrl.val.n]
           e == Len(envs) + 1
       IN /\ Len(envs') = e
          /\ \A i \in 1..Len(envs) : envs'[i] = envs[i]
          /\ envs'[e].parent = fn.env
          /\ DOMAIN envs'[e].store = {fn.parameters[i] : i \in 1..Len(fn.parameters)}
          /\ \A i \in 1..Len(fn.parameters) :
                 (\A j \in (i + 1)..Len(fn.parameters) : fn.parameters[j] # fn.parameters[i])
                 => envs'[e].store[fn.parameters[i]] = ctrl.args[i]
          /\ ctrl' = Eval(fn.body, e)

C4_Outcome ==
    (Halted /\ prog.id = "closure")
    => IF prog.op = "independent"
       THEN status = "ok" /\ Elements(result) = <<IntV(prog.a + 1), IntV(prog.b + 1)>>
       ELSE IF prog.op = "caller"
       THEN status = "Runtime Error" /\ ctrl.exc.msg = "Undefined variable"
       ELSE status = "ok" /\ result = IntV(prog.a)

C4_CallScope == [](C4_Outcome) /\ [][C4_FreshEnvironment]_vars

C4_Witness ==
    /\ Halted /\ prog.id = "closure" /\ prog.op = "independent"
    /\ prog.a = 10 /\ prog.b = 20
    /\ Elements(result) = <<IntV(11), IntV(21)>>

(***************************************************************************)
(* C5  A function value refers to the environment it was created in (no    *)
(* copy is made), so a captured variable keeps its state between calls and *)
(* is shared by the closures of that environment: the k-th call of a       *)
(* counter returns k, a second closure of the same call of make sees the   *)
(* assignments, and a counter of another call of make does not.            *)
(***************************************************************************)
C5_Captures ==
    Evaluating("FunctionLiteral")
    => /\ envs' = envs
       /\ Len(funcs') = Len(funcs) + 1
       /\ funcs'[Len(funcs) + 1].env = ctrl.env
       /\ ctrl' = Ret(FnV(Len(funcs) + 1))

C5_Outcome ==
    (Halted /\ prog.id = "counter")
    => /\ status = "ok"
       /\ IF prog.op = "counter"
          THEN /\ Elements(Global("r")) = [i \in 1..prog.a |-> IntV(i)]
               /\ Global("o") = IntV(1)
          ELSE /\ Global("r") = IntV(prog.a)
               /\ Global("o") = IntV(0)

C5_SharedCapture == [](C5_Outcome) /\ [][C5_Captures]_vars

C5_Witness ==
    /\ Halted /\ prog.id = "counter" /\ prog.op = "shared" /\ prog.a = MaxCalls
    /\ Global("r") = IntV(MaxCalls) /\ Global("o") = IntV(0)

(***************************************************************************)
(* C6  A name bound by const in an environment keeps its value there for   *)
(* the rest of the execution: an assignment  k = e,  k += e,  k -= e  that *)
(* resolves k to that environment raises and changes no environment, and   *)
(* so does a later let k or const k in that environment.                   *)
(***************************************************************************)
C6_Kept ==
    \A e \in 1..Len(envs) : \A k \in envs[e].constants :
        /\ e <= Len(envs')
        /\ k \in envs'[e].constants
        /\ Bound(e, k)' = Bound(e, k)

C6_Raises ==
    /\ Returned("Assign")
       => LET fr == Head(kont)
              b == Binder(envs, fr.env, fr.node.name)
          IN (b # 0 /\ fr.node.name \in envs[b].constants)
             => ctrl'.mode = "raise" /\ envs' = envs
    /\ (Returned("Let") \/ Returned("Const"))
       => LET fr == Head(kont)
          IN fr.node.name \in envs[fr.env].constants
             => ctrl'.mode = "raise" /\ envs' = envs

C6_ConstNeverChanges == [][C6_Kept /\ C6_Raises]_vars

\* an assignment in a nested function has just been refused for a const of
\* an enclosing environment
C6_Witness ==
    /\ prog.id = "scope" /\ prog.op = "+=" /\ prog.w = <<"const", "none">>
    /\ ctrl.mode = "raise" /\ ctrl.exc.msg = "Cannot reassign constant"
    /\ Bound(1, "x") = IntV(1)

(***************************************************************************)
(* C7  A plain assignment  x = e  never creates a binding.  It stores the  *)
(* value in the innermost environment of the chain that binds x and leaves *)
(* every other environment and every other name as they are (a const       *)
(* binding refuses it); with no binding of x in the chain it raises        *)
(* undefined variable and changes no environment.                          *)
(***************************************************************************)
C7_Assign ==
    (Returned("Assign") /\ Head(kont).node.operator = "=")
    => LET fr == Head(kont)
           x == fr.node.name
           b == Binder(envs, fr.env, x)
       IN /\ Len(envs') = Len(envs)
          /\ \A e \in 1..Len(envs) : DOMAIN envs'[e].store = DOMAIN envs[e].store
          /\ IF b = 0
             THEN /\ ctrl'.mode = "raise" /\ ctrl'.exc.msg = "Undefined variable"
                  /\ envs' = envs
             ELSE IF x \in envs[b].constants
             THEN ctrl'.mode = "raise" /\ envs' = envs
             ELSE /\ ctrl' = Ret(ctrl.val)
                  /\ envs'[b].store[x] = ctrl.val
                  /\ \A e \in 1..Len(envs) : \A y \in DOMAIN envs[e].store :
                         (e # b \/ y # x) => envs'[e].store[y] = envs[e].store[y]
                  /\ \A e \in 1..Len(envs) :
                         /\ envs'[e].constants = envs[e].constants
                         /\ envs'[e].parent = envs[e].parent

\* the programs  [let|const x = 1;] fn h() { [let|const x = 2;] x = 99; x }
\*               let r = h(); let o = x; r
C7_Outcome ==
    (Halted /\ prog.id = "scope" /\ prog.op = "=" /\ Len(prog.w) = 2)
    => LET outer == IF prog.w[1] = "none" THEN Unbound ELSE IntV(1) IN
       IF prog.w[2] = "let"
       THEN /\ Bound(2, "x") = IntV(99) /\ Global("x") = outer
            /\ status = IF prog.w[1] = "none" THEN "Runtime Error" ELSE "ok"
       ELSE IF prog.w[2] = "const"
       THEN status = "Internal Error" /\ Bound(2, "x") = IntV(2) /\ Global("x") = outer
       ELSE IF prog.w[1] = "let"
       THEN status = "ok" /\ Global("x") = IntV(99) /\ Bound(2, "x") = Unbound
       ELSE /\ status = "Internal Error" /\ Global("x") = outer /\ Bound(2, "x") = Unbound
            /\ prog.w[1] = "none" => ctrl.exc.msg = "Undefined variable"

C7_AssignUpdatesBinder == [](C7_Outcome) /\ [][C7_Assign]_vars

C7_Witness ==
    /\ Halted /\ prog.id = "scope" /\ prog.op = "=" /\ prog.w = <<"let", "let", "none">>
    /\ Bound(1, "x") = IntV(1) /\ Bound(2, "x") = IntV(99) /\ Bound(3, "x") = Unbound

(***************************************************************************)
(* C8  let x = e  and  const x = e  write the binding into the current     *)
(* environment only: a binding of x in an enclosing environment keeps its  *)
(* value, the current environment reads the new value, and the enclosing   *)
(* one reads the old value after the function has returned.                *)
(***************************************************************************)
C8_Declare ==
    (Returned("Let") \/ Returned("Const"))
    => LET fr == Head(kont)
           x == fr.node.name
           e == fr.env
       IN IF x \in envs[e].constants
          THEN ctrl'.mode = "raise" /\ envs' = envs
          ELSE /\ ctrl' = Ret(ctrl.val)
               /\ Len(envs') = Len(envs)
               /\ \A o \in 1..Len(envs) : o # e => envs'[o] = envs[o]
               /\ DOMAIN envs'[e].store = DOMAIN envs[e].store \cup {x}
               /\ envs'[e].store[x] = ctrl.val
               /\ \A y \in DOMAIN envs[e].store : y # x => envs'[e].store[y] = envs[e].store[y]
               /\ envs'[e].parent = envs[e].parent

\* the programs  let x = 1; fn h() { [let x = 2;] let x = 99; x }
\*               let r = h(); let o = x; r
C8_Outcome ==
    (/\ Halted /\ prog.id = "scope" /\ prog.op \in {"let", "const"}
     /\ Len(prog.w) = 2 /\ prog.w[1] # "none")
    => IF prog.w[2] = "const"
       THEN status = "Internal Error" /\ Global("x") = IntV(1) /\ Bound(2, "x") = IntV(2)
       ELSE /\ status = "ok"
            /\ Bound(2, "x") = IntV(99)
            /\ Global("r") = IntV(99)
            /\ Global("x") = IntV(1)
            /\ Global("o") = IntV(1)

C8_DeclareShadows == [](C8_Outcome) /\ [][C8_Declare]_vars

C8_Witness ==
    /\ Halted /\ prog.id = "scope" /\ prog.op = "let" /\ prog.w = <<"let", "none">>
    /\ Global("r") = IntV(99) /\ Global("o") = IntV(1)

(***************************************************************************)
(* C9  Reading an identifier gives the value of the innermost environment  *)
(* of the chain that binds the name, also when that value is null; with no *)
(* binding it gives the built-in of that name; with neither it raises      *)
(* undefined variable.  A user binding comes before a built-in.            *)
(***************************************************************************)
C9_Read ==
    Evaluating("Identifier")
    => LET x == ctrl.node.name
           b == Binder(envs, ctrl.env, x)
       IN /\ ctrl' = IF b # 0 THEN Ret(envs[b].store[x])
                     ELSE IF x \in BUILTINS THEN Ret(BuiltinV(x))
                     ELSE Raise(KiraRuntimeError("Undefined variable"))
          /\ UNCHANGED <<kont, envs, heap, funcs>>

\* the programs  [let|const name = v]; name   with name x or len, v 1 or null
C9_Outcome ==
    (Halted /\ prog.id = "scope" /\ prog.op = "read" /\ Len(prog.w) = 1)
    => IF prog.w[1] # "none"
       THEN status = "ok" /\ result = IF prog.b = 1 THEN Null ELSE IntV(1)
       ELSE IF prog.a = 1
       THEN status = "ok" /\ result = BuiltinV("len")
       ELSE status = "Runtime Error" /\ ctrl.exc.msg = "Undefined variable"

C9_IdentifierLookup == [](C9_Outcome) /\ [][C9_Read]_vars

\* a null bound to the name of a built-in in an enclosing environment is read
C9_Witness ==
    /\ Halted /\ prog.id = "scope" /\ prog.op = "read" /\ prog.w = <<"let", "none">>
    /\ prog.a = 1 /\ prog.b = 1
    /\ status = "ok" /\ result = Null /\ Global("r") = Null

(***************************************************************************)
(* C10  a and b  evaluates a once and is the value of a, with b not        *)
(* evaluated, when a is falsy, and the value of b otherwise;  a or b  is   *)
(* the value of a, with b not evaluated, when a is truthy, and the value   *)
(* of b otherwise.  The result is the operand itself, and a skipped        *)
(* operand has no side effect and raises no error.                         *)
(***************************************************************************)
C10_Step ==
    Returned("Logical")
    => /\ kont' = Tail(kont)
       /\ \/ ctrl' = Ret(ctrl.val)
          \/ ctrl' = Eval(Head(kont).node.right, Head(kont).env)
       /\ UNCHANGED <<envs, heap, funcs>>

C10_Outcome ==
    (Halted /\ prog.id = "logic")
    => LET t == Operands[prog.a].truthy
           skipped == IF prog.op = "and" THEN ~t ELSE t
       IN /\ Global("na") = IntV(1)
          /\ IF skipped
             THEN status = "ok" /\ Global("r") = Global("av") /\ Global("nb") = IntV(0)
             ELSE IF prog.b = 1
             THEN /\ status = "Runtime Error" /\ ctrl.exc.msg = "Undefined variable"
                  /\ Global("r") = Unbound
             ELSE status = "ok" /\ Global("r") = IntV(7) /\ Global("nb") = IntV(1)

C10_ShortCircuit == [](C10_Outcome) /\ [][C10_Step]_vars

\* 0 and zz  is 0: the undefined zz is not evaluated
C10_Witness ==
    /\ Halted /\ prog.id = "logic" /\ prog.op = "and" /\ prog.a = 4 /\ prog.b = 1
    /\ status = "ok" /\ Global("r") = IntV(0) /\ Global("na") = IntV(1)

(***************************************************************************)
(* C11  In a call the callee expression is evaluated first, then the       *)
(* arguments in source order, each once, and all of that before the body   *)
(* is entered; the operands of a binary operator, and the object, index    *)
(* and value of an index assignment, are evaluated left to right.          *)
(***************************************************************************)
\* the numbers logged so far
Log == [i \in 1..Len(Elements(Global("log"))) |-> Elements(Global("log"))[i].n]

C11_Order ==
    prog.id = "order"
    => /\ (prog.op = "call" /\ ctrl.mode = "apply" /\ ctrl.val.t = "Function"
           /\ funcs[ctrl.val.n].parameters = <<"x", "y">>)
          => Log = <<0, 1, 2>> /\ ctrl.args = <<IntV(10), IntV(3)>>
       /\ Halted
          => /\ status = "ok"
             /\ Global("r") = IntV(7)
             /\ Log = IF prog.op = "call" THEN <<0, 1, 2, 9>>
                      ELSE IF prog.op = "binary" THEN <<1, 2>>
                      ELSE <<1, 2, 3>>

C11_Witness ==
    Halted /\ prog.id = "order" /\ prog.op = "call" /\ Log = <<0, 1, 2, 9>>

(***************************************************************************)
(* C12  A call of a user function with a number of arguments other than    *)
(* its number of parameters raises a runtime error; no environment is      *)
(* created and no statement of the body runs.  With the exact number,      *)
(* parameter i is bound to argument i in the fresh environment.            *)
(***************************************************************************)
C12_Mismatch ==
    (/\ ctrl.mode = "apply" /\ ctrl.val.t = "Function"
     /\ Len(ctrl.args) # Len(funcs[ctrl.val.n].parameters))
    => /\ ctrl' = Raise(KiraRuntimeError("Expected arguments"))
       /\ UNCHANGED <<kont, envs, heap, funcs>>

C12_Outcome ==
    (Halted /\ prog.id = "arity")
    => IF prog.a = prog.b
       THEN /\ status = "ok"
            /\ Global("n") = IntV(1)
            /\ Elements(Global("r")) = [i \in 1..prog.a |-> IntV(10 * i)]
            /\ Len(envs) = 2
            /\ \A i \in 1..prog.a : Bound(2, <<"x", "y", "z">>[i]) = IntV(10 * i)
       ELSE /\ status = "Runtime Error"
            /\ ctrl.exc.msg = "Expected arguments"
            /\ Global("n") = IntV(0)
            /\ Global("r") = Unbound
            /\ Len(envs) = 1

C12_Arity == [](C12_Outcome) /\ [][C12_Mismatch]_vars

C12_Witness ==
    /\ Halted /\ prog.id = "arity" /\ prog.a = 2 /\ prog.b = 1
    /\ status = "Runtime Error" /\ Global("n") = IntV(0) /\ Len(envs) = 1

(***************************************************************************)
(* C13  a[i] on an array, s[i] on a string, gives the element (the         *)
(* character) at i exactly when i is an integer with 0 <= i < length; an   *)
(* integer outside raises index out of bounds; an index of another kind    *)
(* (boolean, float, string, null) raises a type error; d[k] with a missing *)
(* key raises key not found; indexing another kind of value raises a type  *)
(* error.                                                                  *)
(***************************************************************************)
Failed(msg) == status = "Runtime Error" /\ ctrl.exc.msg = msg

C13_IndexRead ==
    (Halted /\ prog.id = "index")
    => LET ix == Indices[prog.a] IN
       IF prog.op = "array"
       THEN IF ix.kind # "int" THEN Failed("Array index must be integer")
            ELSE IF ix.i < 0 \/ ix.i >= 2 THEN Failed("Array index out of bounds")
            ELSE status = "ok" /\ Global("r") = IntV(10 * (ix.i + 1))
       ELSE IF prog.op = "string"
       THEN IF ix.kind # "int" THEN Failed("String index must be integer")
            ELSE IF ix.i < 0 \/ ix.i >= 2 THEN Failed("String index out of bounds")
            ELSE status = "ok" /\ Global("r") = StrV(<<(<<"a", "b">>)[ix.i + 1]>>)
       ELSE IF prog.op = "dict"
       THEN IF ix.kind = "str" THEN status = "ok" /\ Global("r") = IntV(1)
            ELSE Failed("Key not found")
       ELSE Failed("Cannot index into")

(***************************************************************************)
(* C14  After a successful  a[i] = v  on an array, a[i] is v and the       *)
(* length and every other element are as before; after  d[k] = v  on a     *)
(* dict, d[k] is v and every other entry is as before; an array index      *)
(* outside [0, length) raises and leaves the array as it is.               *)
(***************************************************************************)
C14_Store ==
    Returned("AssignValue")
    => LET obj == Head(kont).obj
           ix == Head(kont).index
           v == ctrl.val
           old == heap[obj.n].items
           new == heap'[obj.n].items
       IN IF obj.t = "list" /\ ix.t = "int"
          THEN IF ix.n >= 0 /\ ix.n < Len(old)
               THEN /\ ctrl' = Ret(v)
                    /\ Len(heap') = Len(heap)
                    /\ \A o \in 1..Len(heap) : o # obj.n => heap'[o] = heap[o]
                    /\ Len(new) = Len(old)
                    /\ \A j \in 1..Len(old) : new[j] = IF j = ix.n + 1 THEN v ELSE old[j]
               ELSE /\ ctrl'.mode = "raise"
                    /\ ctrl'.exc.msg = "Array index out of bounds"
                    /\ heap' = heap
          ELSE IF obj.t = "dict" /\ ix.t = "str"
          THEN LET present == \E j \in 1..Len(old) : old[j].key = ix IN
               /\ ctrl' = Ret(v)
               /\ Len(heap') = Len(heap)
               /\ \A o \in 1..Len(heap) : o # obj.n => heap'[o] = heap[o]
               /\ Len(new) = IF present THEN Len(old) ELSE Len(old) + 1
               /\ \A j \in 1..Len(old) :
                      new[j] = IF old[j].key = ix THEN [key |-> ix, val |-> v] ELSE old[j]
               /\ ~present => new[Len(new)] = [key |-> ix, val |-> v]
          ELSE TRUE

C14_Outcome ==
    (Halted /\ prog.id = "store")
    => IF prog.op = "array"
       THEN IF prog.a - 1 \in 0..2
            THEN /\ status = "ok" /\ Global("r") = IntV(99)
                 /\ Elements(Global("x")) =
                        [j \in 1..3 |-> IF j = prog.a THEN IntV(99) ELSE IntV(j)]
            ELSE /\ Failed("Array index out of bounds")
                 /\ Elements(Global("x")) = <<IntV(1), IntV(2), IntV(3)>>
       ELSE /\ status = "ok" /\ Global("r") = IntV(99)
            /\ heap[Global("x").n].items =
                   [j \in 1..(IF prog.a = 3 THEN 3 ELSE 2) |->
                       [key |-> StrV(<<StoreKeys[j]>>),
                        val |-> IF j = prog.a THEN IntV(99) ELSE IntV(j)]]

C14_IndexAssign == [](C14_Outcome) /\ [][C14_Store]_vars

C14_Witness ==
    /\ Halted /\ prog.id = "store" /\ prog.op = "array" /\ prog.a = 2
    /\ Elements(Global("x")) = <<IntV(1), IntV(99), IntV(3)>> /\ Global("r") = IntV(99)

(***************************************************************************)
(* C15  A dict keeps its keys in the order of their first insertion:       *)
(* keys(d) lists the keys of the literal in source order, then the keys    *)
(* inserted later in the order of insertion; assigning to a present key    *)
(* changes the value and not the position.                                 *)
(***************************************************************************)
\* the elements of seq, each at its first occurrence
RECURSIVE FirstOccurrences(_)
FirstOccurrences(seq) ==
    IF Len(seq) = 0 THEN <<>>
    ELSE LET init == FirstOccurrences(SubSeq(seq, 1, Len(seq) - 1))
             last == seq[Len(seq)]
         IN IF \E i \in 1..Len(init) : init[i] = last THEN init ELSE Append(init, last)

C15_Outcome ==
    (Halted /\ prog.id = "keys")
    => LET written == prog.w \o <<StoreKeys[prog.a], StoreKeys[prog.b]>>
           values == [i \in 1..Len(written) |->
                         IF i = Len(written) THEN 9 ELSE IF i = Len(written) - 1 THEN 8 ELSE i]
           order == FirstOccurrences(written)
           entries == heap[Global("d").n].items
       IN /\ status = "ok"
          /\ Elements(Global("r")) = [i \in 1..Len(order) |-> StrV(<<order[i]>>)]
          /\ Len(entries) = Len(order)
          /\ \A i \in 1..Len(order) :
                 /\ entries[i].key = StrV(<<order[i]>>)
                 /\ \E j \in 1..Len(written) :
                        /\ written[j] = order[i]
                        /\ \A l \in (j + 1)..Len(written) : written[l] # order[i]
                        /\ entries[i].val = IntV(values[j])

\* the order of the keys never changes, and keys are only added at the end
C15_Step ==
    \A o \in 1..Len(heap) :
        heap[o].k = "dict"
        => /\ Len(heap'[o].items) >= Len(heap[o].items)
           /\ \A i \in 1..Len(heap[o].items) : heap'[o].items[i].key = heap[o].items[i].key

C15_InsertionOrder == [](C15_Outcome) /\ [][C15_Step]_vars

C15_Witness ==
    /\ Halted /\ prog.id = "keys" /\ prog.w = <<"b", "a">> /\ prog.a = 3 /\ prog.b = 2
    /\ Elements(Global("r")) = <<StrV(<<"b">>), StrV(<<"a">>), StrV(<<"c">>)>>
    /\ heap[Global("d").n].items[1].val = IntV(9)

(***************************************************************************)
(* The tree a precedence table gives to a token list without parentheses.  *)
(***************************************************************************)
\* the levels of the table, from the loosest to the tightest
TableLevel(node) ==
    CASE node.k = "BinaryOp" ->
             (CASE node.operator = "or" -> 1
                [] node.operator = "and" -> 2
                [] node.operator \in {"==", "!="} -> 3
                [] node.operator \in {"<", ">", "<=", ">="} -> 4
                [] node.operator \in {"+", "-"} -> 5
                [] node.operator \in {"*", "/", "%"} -> 6
                [] node.operator = "**" -> 7)
      [] node.k = "UnaryOp" -> 8
      [] node.k = "CallExpression" -> 9
      [] node.k = "IndexExpression" -> 10
      [] OTHER -> 11

RECURSIVE Grouped(_)
\* every operator of the tree has operands that bind at least as tightly as
\* the table asks: a binary operator's left operand is of its level or
\* tighter and its right operand is tighter, the other way round for **; a
\* prefix operator's operand is no binary operation; what a call or an
\* index is applied to is no binary and no prefix operation
Grouped(node) ==
    CASE node.k = "BinaryOp" ->
             /\ IF node.operator = "**"
                THEN /\ TableLevel(node.left) > TableLevel(node)
                     /\ TableLevel(node.right) >= TableLevel(node)
                ELSE /\ TableLevel(node.left) >= TableLevel(node)
                     /\ TableLevel(node.right) > TableLevel(node)
             /\ Grouped(node.left)
             /\ Grouped(node.right)
      [] node.k = "UnaryOp" -> TableLevel(node.operand) >= 8 /\ Grouped(node.operand)
      [] node.k = "CallExpression" ->
             /\ TableLevel(node.function) >= 9
             /\ Grouped(node.function)
             /\ \A i \in 1..Len(node.arguments) : Grouped(node.arguments[i])
      [] node.k = "IndexExpression" ->
             /\ TableLevel(node.object) >= 9
             /\ Grouped(node.object)
             /\ Grouped(node.index)
      [] OTHER -> TRUE

RECURSIVE Yield(_)
RECURSIVE YieldList(_)
\* the literals of the tokens of an expression, read off its tree from left
\* to right
Yield(node) ==
    CASE node.k = "BinaryOp" -> Yield(node.left) \o <<node.operator>> \o Yield(node.right)
      [] node.k = "UnaryOp" -> <<node.operator>> \o Yield(node.operand)
      [] node.k = "CallExpression" ->
             Yield(node.function) \o <<"(">> \o YieldList(node.arguments) \o <<")">>
      [] node.k = "IndexExpression" ->
             Yield(node.object) \o <<"[">> \o Yield(node.index) \o <<"]">>
      [] node.k = "IntegerLiteral" -> <<ToString(node.value)>>
      [] node.k = "BooleanLiteral" -> <<IF node.value THEN "true" ELSE "false">>
      [] OTHER -> <<"?">>

YieldList(nodes) ==
    IF nodes = <<>> THEN <<>>
    ELSE IF Len(nodes) = 1 THEN Yield(nodes[1])
    ELSE Yield(nodes[1]) \o <<",">> \o YieldList(Tail(nodes))

\* the literals of the tokens before EOF
Literals(tokens) == [i \in 1..(Len(tokens) - 1) |-> tokens[i].literal]

TokenList(tokens) ==
    /\ tokens # <<>>
    /\ tokens[Len(tokens)].type = "EOF"
    /\ \A i \in 1..(Len(tokens) - 1) : tokens[i].type # "EOF"
    /\ \A i \in 1..Len(tokens) : tokens[i].type # "NEWLINE"

\* C17: for every source string tokenize ends in one of two ways: it raises
\* a LexerError, or it returns a token list that contains exactly one EOF
\* token, as its last element, and no NEWLINE token.
C17_Tokenize ==
    front.phase \in {"tokens", "LexerError", "ValueError"} =>
        \/ front.phase = "LexerError"
        \/ front.phase = "tokens" /\ TokenList(front.tokens)

\* C17, the list: whenever tokenize returns, its list has one EOF token, at
\* its end, and no NEWLINE token
C17_TokenList == front.phase = "tokens" => TokenList(front.tokens)

\* C17, the steps: a turn of the loop that neither returns nor raises
\* consumes at least one character
C17_Consumes ==
    [][front.phase = "tokenize" /\ front'.phase = "tokenize" => front'.pos > front.pos]_vars

\* C17, the end: tokenize terminates
C17_Terminates == <>(front.phase \in {"tokens", "LexerError", "ValueError"})

(***************************************************************************)
(* C18  Every failure of an evaluation (type mismatch in an operator,      *)
(* arity mismatch, undefined name on read or on assignment, constant       *)
(* reassignment, division or modulo by zero, index out of bounds, missing  *)
(* dict key, non-iterable, non-callable, return / break / continue out of  *)
(* context) reaches the embedder as a runtime error, none as an internal   *)
(* error or another host exception.                                        *)
(***************************************************************************)
C18_FailureIsRuntimeError ==
    (Halted /\ prog.id = "failure")
    => status = "Runtime Error" /\ ctrl.exc.cls = "KiraRuntimeError"

(***************************************************************************)
(* C19  The value of a block is the value of its last executed statement,  *)
(* where a loop, a let / const declaration, a function declaration and an  *)
(* assignment (to a name or to an index) yield null; an empty block yields *)
(* null, and an if-expression yields the value of the taken block, or null *)
(* when the condition is falsy and there is no else.                       *)
(***************************************************************************)
C19_BlockValue ==
    (Halted /\ prog.id = "value")
    => /\ status = "ok"
       /\ Global("r") = IF prog.op = "expr" THEN IntV(2) ELSE Null

\* C19, the statements that yield null in the code: a loop, an empty block
\* and an if-expression with a falsy condition and no else
C19_Null ==
    (Halted /\ prog.id = "value" /\ prog.op \in {"while", "for", "empty", "if"})
    => status = "ok" /\ Global("r") = Null

(***************************************************************************)
(* C20  x += e has the same outcome as x = x + e, and x -= e the same as   *)
(* x = x - e: the same final binding of x and the same error.  The         *)
(* language's + applies (with a string on either side both sides are       *)
(* converted to print form and concatenated), and the current value of x   *)
(* is read before e is evaluated.                                          *)
(***************************************************************************)
\* the outcome of x = x + e (b = 0) and of x = x - e (b = 1) in the cases of
\* the family "compound": the exception raised, and the final x
PlainOutcome(a, b) ==
    CASE a = 1 -> [cls |-> "none", x |-> IF b = 0 THEN IntV(3) ELSE IntV(-1)]
      [] a = 2 -> IF b = 0 THEN [cls |-> "none", x |-> StrV(<<"a", "1">>)]
                  ELSE [cls |-> "TypeError", x |-> StrV(<<"a">>)]
      [] a = 3 -> IF b = 0 THEN [cls |-> "none", x |-> StrV(<<"1", "a">>)]
                  ELSE [cls |-> "TypeError", x |-> IntV(1)]
      [] a = 4 -> [cls |-> "none", x |-> IF b = 0 THEN IntV(2) ELSE IntV(0)]
      [] a = 5 -> [cls |-> "KiraRuntimeError", x |-> Unbound]
      [] a = 6 -> [cls |-> "RuntimeError", x |-> IntV(1)]

SameAsPlain ==
    /\ ctrl.exc.cls = PlainOutcome(prog.a, prog.b).cls
    /\ Global("x") = PlainOutcome(prog.a, prog.b).x

\* C20: every program of the family, compound or plain, ends with the
\* outcome of the plain form
C20_CompoundAssign == (Halted /\ prog.id = "compound") => SameAsPlain

\* C20, the plain forms: x = x + e and x = x - e have the outcomes the
\* compound forms are compared with
C20_Plain == (Halted /\ prog.id = "compound" /\ prog.op = "plain") => SameAsPlain

\* C20, numbers: with integers for x and e, and with x undeclared or
\* constant, the compound forms have the outcome of the plain forms
C20_Numbers ==
    (Halted /\ prog.id = "compound" /\ prog.a \in {1, 5, 6}) => SameAsPlain

(***************************************************************************)
(* Semicolons.                                                             *)
(***************************************************************************)
\* C21: a semicolon is a separator without effect at every statement
\* boundary: whatever number of semicolons stands before the first statement,
\* between two statements and after the last one, at the top level and inside
\* a block (directly before the closing brace of a function, if, else, while
\* or for body too), the parser raises no error and the program is the one
\* of the statement list without them.
C21_Semicolons ==
    prog.id = "semicolons" /\ front.phase # "parse" =>
        /\ front.phase = "program"
        /\ front.statements = PlacedStatements(prog.op, Statements123(Len(prog.w) - 1))

\* C21, at the top level and before a statement: there the semicolons have
\* no effect
C21_TopLevel ==
    /\ prog.id = "semicolons"
    /\ front.phase # "parse"
    /\ prog.op = "top" \/ prog.w[Len(prog.w)] = 0
    => /\ front.phase = "program"
       /\ front.statements = PlacedStatements(prog.op, Statements123(Len(prog.w) - 1))

\* C21, before a closing brace: a semicolon there is a ParserError
C21_BeforeBrace ==
    /\ prog.id = "semicolons"
    /\ front.phase # "parse"
    /\ prog.op # "top" /\ prog.w[Len(prog.w)] > 0
    => front.phase = "ParserError"

(***************************************************************************)
(* Arrays are shared.                                                      *)
(***************************************************************************)
\* the integers w as values
Ints(w) == [i \in 1..Len(w) |-> IntV(w[i])]

\* s is t in ascending order
Ascending(s, t) ==
    /\ Len(s) = Len(t)
    /\ \A i \in 1..(Len(s) - 1) : s[i].n <= s[i + 1].n
    /\ \A x \in 1..3 : Cardinality({i \in 1..Len(s) : s[i] = IntV(x)})
                       = Cardinality({i \in 1..Len(t) : t[i] = IntV(x)})

\* C22: arrays are shared by reference.  After let b = a, push(b, v) appends
\* v to the one array both names hold and returns that array; pop(a) removes
\* and returns its last element, and on an empty array raises a runtime error
\* and leaves it empty; sorted(a) and reversed(a) return a new array and
\* leave a, and so b, as they were.
C22_SharedArrays ==
    Halted /\ prog.id = "alias" =>
        LET a == Global("a")
            r == Global("r")
            w == Ints(prog.w)
        IN  /\ a.t = "list"
            /\ Global("b") = a
            /\ prog.op = "push" =>
                   /\ status = "ok"
                   /\ r = a
                   /\ Elements(a) = Append(w, IntV(9))
            /\ prog.op = "pop" /\ w = <<>> =>
                   /\ status = "Runtime Error"
                   /\ Elements(a) = <<>>
            /\ prog.op = "pop" /\ w # <<>> =>
                   /\ status = "ok"
                   /\ r = w[Len(w)]
                   /\ Elements(a) = SubSeq(w, 1, Len(w) - 1)
            /\ prog.op \in {"sorted", "reversed"} =>
                   /\ status = "ok"
                   /\ r.t = "list"
                   /\ r.n # a.n
                   /\ Elements(a) = w
                   /\ prog.op = "sorted" => Ascending(Elements(r), w)
                   /\ prog.op = "reversed" =>
                          /\ Len(Elements(r)) = Len(w)
                          /\ \A i \in 1..Len(w) : Elements(r)[i] = w[Len(w) + 1 - i]

\* sorted(a) has returned [1, 3] for a = [3, 1], which b still holds
C22_Witness ==
    /\ Halted
    /\ prog.id = "alias"
    /\ prog.op = "sorted"
    /\ Elements(Global("r")) = <<IntV(1), IntV(3)>>
    /\ Elements(Global("b")) = <<IntV(3), IntV(1)>>

(***************************************************************************)
(* The for loop.                                                           *)
(***************************************************************************)
\* the items a for loop over the iterable of an "iterate" program visits
Visited(p) ==
    CASE p.op = "array" -> Ints(p.w)
      [] p.op = "string" -> [i \in 1..Len(p.w) |-> StrV(<<StoreKeys[p.w[i]]>>)]
      [] p.op = "dict" ->
            LET keys == FirstOccurrences([i \in 1..Len(p.w) |-> StoreKeys[p.w[i]]])
            IN  [i \in 1..Len(keys) |-> StrV(<<keys[i]>>)]
      [] OTHER -> <<>>

\* C23: for v in e evaluates e exactly once, before the first iteration, and
\* runs the body once per item: the elements of an array in index order, the
\* characters of a string as one-character strings, the keys of a dictionary
\* in insertion order.  Over null, a boolean, an integer, a float, a function
\* or a built-in it raises the runtime error `not iterable` and the body does
\* not run.
C23_ForLoop ==
    /\ prog.id = "iterate" /\ Global("n").t = "int" /\ Global("n").n = 0 =>
           Elements(Global("log")) \in {<<>>, <<Unbound>>}
    /\ Halted /\ prog.id = "iterate" =>
           /\ Global("n") = IntV(1)
           /\ Elements(Global("log")) = Visited(prog)
           /\ IF prog.op \in {"array", "string", "dict"} THEN status = "ok"
              ELSE /\ status = "Runtime Error"
                   /\ ctrl.exc = KiraRuntimeError("Cannot iterate over")

\* the loop over {"b": 1, "a": 2} has run its body for "b", then for "a"
C23_Witness ==
    /\ Halted
    /\ prog.id = "iterate"
    /\ prog.op = "dict"
    /\ Elements(Global("log")) = <<StrV(<<"b">>), StrV(<<"a">>)>>

(***************************************************************************)
(* Truthiness.                                                             *)
(***************************************************************************)
\* C24: truthiness is defined for every value: null and false are falsy, an
\* integer or a float is falsy exactly when it is zero, a string, an array or
\* a dictionary exactly when it is empty, and every other value is truthy;
\* not v is a boolean for every v, the negation of the truthiness of v, and
\* not not v is the truthiness of v, which is also what a condition sees.
C24_Truthiness ==
    Halted /\ prog.id = "truthy" =>
        /\ status = "ok"
        /\ Global("r") = BoolV(Kinds[prog.a].falsy)
        /\ Global("rr") = BoolV(~Kinds[prog.a].falsy)
        /\ Global("t") = Global("rr")
        /\ is_truthy(heap, Global("v")) = ~Kinds[prog.a].falsy

\* not {} has given true and not not {} false
C24_Witness ==
    /\ Halted
    /\ prog.id = "truthy"
    /\ Global("v").t = "dict"
    /\ Global("r") = BoolV(TRUE)
    /\ Global("rr") = BoolV(FALSE)

(***************************************************************************)
(* A break or continue of a called function.                               *)
(***************************************************************************)
\* C25: a break or continue in a function body, outside every loop of that
\* function, never ends or skips an iteration of a loop of the caller: it
\* surfaces as a runtime error instead.
C25_CalleeSignal ==
    Halted /\ prog.id = "escape" =>
        /\ status = "Runtime Error"
        /\ Global("n") = IntV(1)
        /\ Global("m") = IntV(0)

\* C25, what happens: the break of the called function ends the loop of the
\* caller in its first iteration, the continue skips the rest of every
\* iteration, and the program ends without an error
C25_CallerLoop ==
    Halted /\ prog.id = "escape" =>
        /\ status = "ok"
        /\ Global("m") = IntV(0)
        /\ Global("n") = IF prog.op = "break" THEN IntV(1) ELSE IntV(prog.b)

(***************************************************************************)
(* The parser's position.                                                  *)
(***************************************************************************)
\* a parsing method entered at pos has ended at r.pos, with a node or with a
\* ParserError: not before pos, not after the EOF token, and after pos when
\* it returned
Consumed(tokens, pos, r) ==
    /\ r.err \in {"none", "ParserError"}
    /\ r.pos >= pos
    /\ r.pos <= Len(tokens) - 1
    /\ r.err = "none" => r.pos > pos

\* one turn of the program loop or of the block loop from every position
\* of the list where they can be, and one turn of the infix loop of
\* parse_expression from every position where an infix parser is registered
Turns(tokens) ==
    \A pos \in 0..(Len(tokens) - 1) :
        /\ current_token(tokens, pos).type # "EOF" =>
               Consumed(tokens, pos, parse_statement(tokens, pos))
        /\ current_token(tokens, pos).type \in infix_parse_fns =>
               Consumed(tokens, pos, infix_fn(tokens, Identifier("x"), pos))
        /\ current_token(tokens, pos).type \in prefix_parse_fns =>
               Consumed(tokens, pos, prefix_fn(tokens, pos))

\* the tokens parse_program has not consumed, and one more while its loop
\* runs: the number of steps parse_program can still take
Remaining(f) == (Len(f.tokens) - f.pos) + (IF f.phase = "parse" THEN 1 ELSE 0)

\* C26, the state: the position is never after the EOF token, what
\* parse_program ends with is a Program or a ParserError, and from every
\* position a turn of a loop consumes a token or raises
C26_Position ==
    /\ front.phase \in {"parse", "program", "ParserError"}
    /\ front.pos \in 0..(Len(front.tokens) - 1)
    /\ front.phase = "parse" /\ front.pos = 0 => Turns(front.tokens)

\* C26, the step: the position never decreases, a turn of the program loop
\* that does not raise consumes at least one token, and every step leaves
\* parse_program fewer steps to take
C26_Step ==
    /\ front'.pos >= front.pos
    /\ front'.phase = "parse" => front'.pos > front.pos
    /\ Remaining(front') < Remaining(front)

\* C26: the parser's position never decreases and never passes the EOF
\* token; every turn of the program loop, of the block loop and of the infix
\* loop of parse_expression consumes at least one token or raises; and on
\* every token list that ends with EOF parse_program ends, with a Program or
\* with a ParserError: each of its steps takes one from a number that is
\* never negative.
C26_Terminates == [](C26_Position) /\ [][C26_Step]_vars

\* parse_program has returned the Program of  x = 1
C26_Witness ==
    /\ front.phase = "program"
    /\ prog.id = "soup"
    /\ front.pos = 3
    /\ front.statements = <<AssignStatement("x", "=", IntegerLiteral(1))>>

(***************************************************************************)
(* Parameter names.                                                        *)
(***************************************************************************)
\* no name stands twice in names
Distinct(names) == \A i, j \in 1..Len(names) : names[i] = names[j] => i = j

\* the parameter lists of the functions declared or written at the top
\* level of the statements
ParameterLists(statements) ==
    {statements[i].parameters :
         i \in {j \in 1..Len(statements) : statements[j].k = "FunctionStatement"}}
    \cup {statements[i].expression.parameters :
              i \in {j \in 1..Len(statements) :
                         /\ statements[j].k = "ExpressionStatement"
                         /\ statements[j].expression.k = "FunctionLiteral"}}

\* C27: the parameter names of every function declaration and function
\* literal of a parsed program are pairwise distinct: a parameter list that
\* repeats a name, as in fn f(a, a) { a }, is not accepted.
C27_DistinctParameters ==
    /\ front.phase = "program" =>
           \A names \in ParameterLists(front.statements) : Distinct(names)
    /\ prog.id = "params" /\ ~Distinct(Names(prog.w)) => front.phase # "program"

\* C27, what happens: every parameter list is accepted as it is written
C27_Accepted ==
    prog.id = "params" /\ front.phase # "parse" =>
        /\ front.phase = "program"
        /\ ParameterLists(front.statements) = {Names(prog.w)}

(***************************************************************************)
(* Blocks open no environment.                                             *)
(***************************************************************************)
\* C28: the bodies of if, while and for open no environment: there is the
\* root environment and one more for each call of a user function.  A let
\* executed inside such a body binds the name in the environment of the
\* enclosing call, or in the root, where it stays visible after the block;
\* after a for loop the loop variable is bound there to the last item, and
\* the loop did not bind it when there was no item.
C28_BlockScope ==
    Halted /\ prog.id = "block" =>
        LET here == IF prog.op \in {"root", "loopvar"} THEN 1 ELSE 2
        IN  /\ Len(envs) = here
            /\ prog.op \in {"root", "call"} =>
                   /\ status = "ok"
                   /\ Bound(here, "x") = IntV(5)
                   /\ Global("r") = IntV(5)
                   /\ prog.op = "call" => Global("x") = Unbound
            /\ prog.op \in {"loopvar", "callvar"} /\ prog.a > 0 =>
                   /\ status = "ok"
                   /\ Bound(here, "i") = IntV(prog.a)
                   /\ Global("r") = IntV(prog.a)
            /\ prog.op \in {"loopvar", "callvar"} /\ prog.a = 0 =>
                   /\ status = "Runtime Error"
                   /\ Bound(here, "i") = Unbound
                   /\ Global("r") = Unbound

\* the x of  fn f() { while go { for i in [1] { go = false; let x = 5 } }; x }
\* is bound in the environment of the call of f, and f has returned it
C28_Witness ==
    /\ Halted
    /\ prog.id = "block"
    /\ prog.op = "call"
    /\ prog.w = <<"while", "for">>
    /\ Bound(2, "x") = IntV(5)
    /\ Bound(2, "i") = IntV(1)
    /\ Global("r") = IntV(5)

(***************************************************************************)
(* A for loop iterates the live array.                                     *)
(***************************************************************************)
RECURSIVE Iterations(_, _, _)
\* the iterations of a loop over an array of k elements whose first e
\* iterations remove the last element, j of them done
Iterations(k, e, j) ==
    IF j >= k - (IF j < e THEN j ELSE e) THEN j ELSE Iterations(k, e, j + 1)

\* C29: a for loop over an array iterates the array as it is, not as it was
\* when the iterable was evaluated: an element the body appends to it, through
\* another name, is visited by a later iteration, and an element the body
\* removes with pop before its turn is not visited; so the number of
\* iterations is not the length of the array at loop entry.
C29_LiveArray ==
    Halted /\ prog.id = "live" =>
        LET log == Elements(Global("log"))
            n == IF prog.op = "push" THEN prog.a + prog.b
                 ELSE Iterations(prog.a, prog.b, 0)
        IN  /\ status = "ok"
            /\ Global("n") = IntV(n)
            /\ Len(log) = n
            /\ \A i \in 1..n : log[i] = IF i <= prog.a THEN IntV(i) ELSE IntV(0)
            /\ prog.op = "push" => Elements(Global("a")) = log
            /\ prog.op = "pop" =>
                   Elements(Global("a"))
                       = [i \in 1..(prog.a - (IF n < prog.b THEN n ELSE prog.b)) |-> IntV(i)]

\* the loop over [1, 2] whose first two iterations push 0 has run four times
C29_Witness ==
    /\ Halted
    /\ prog.id = "live"
    /\ prog.op = "push"
    /\ prog.a = 2
    /\ prog.b = 2
    /\ Elements(Global("log")) = <<IntV(1), IntV(2), IntV(0), IntV(0)>>

(***************************************************************************)
(* Assignment to an index.                                                 *)
(***************************************************************************)
\* C30: for an index target the parser drops the assignment operator:
\* a[i] += v and a[i] -= v are parsed to the index-assign node of a[i] = v,
\* and executing it stores v itself at a[i]: the old element is neither
\* added to nor read, so a key the dictionary does not have is stored too.
C30_IndexOperator ==
    prog.id = "indexassign" /\ front.phase # "parse" =>
        LET key == IF prog.a = 2 THEN StringLiteral(<<"k">>) ELSE IntegerLiteral(prog.a)
            index == IF prog.a = 2 THEN StrV(<<"k">>) ELSE IntV(prog.a)
            h == <<ListObj(<<IntV(7), IntV(8)>>), DictObj(<<>>)>>
            obj == IF prog.a = 2 THEN DictV(2) ELSE ArrV(1)
        IN  /\ front.phase = "program"
            /\ front.statements = <<IndexAssignStatement(Identifier("a"), key,
                                                         IntegerLiteral(prog.b))>>
            /\ LET value == eval_constant(front.statements[1].value)
                   r == ApplyIndexAssign(h, obj, index, value.val)
               IN  /\ value = Ok(<<>>, IntV(prog.b))
                   /\ r.exc = NoExc
                   /\ r.val = IntV(prog.b)
                   /\ prog.a < 2 => r.heap[1].items[prog.a + 1] = IntV(prog.b)
                   /\ prog.a = 2 =>
                          r.heap[2].items = <<[key |-> index, val |-> IntV(prog.b)]>>

\* a[1] += 2 has been parsed to the node of a[1] = 2
C30_Witness ==
    /\ front.phase = "program"
    /\ prog.id = "indexassign"
    /\ prog.op = "+="
    /\ front.statements =
           <<IndexAssignStatement(Identifier("a"), IntegerLiteral(1), IntegerLiteral(2))>>

====
